---- MODULE Spec2Model ----
(***************************************************************************)
(* A model of the tankio server: the match simulation (package game) and   *)
(* the session hub / session registry (package network).                   *)
(*                                                                         *)
(* Time is counted in units of 250 ms: durations and speeds of the source  *)
(* are given per unit (cannon cooldown 500 ms = 2 units, tank speed        *)
(* 200 px/s = 50 px per unit, ...).  Positions are integer pixels; the     *)
(* float64 arithmetic of the source is exact on the inputs enumerated here *)
(* except for off-axis directions, which are rounded to 1/1000.            *)
(***************************************************************************)
EXTENDS Integers, Sequences, FiniteSets, TLC

VARIABLES
    g,          \* the match simulation of the session under study (game.Game)
    now,        \* the wall clock, in time units
    idCounter,  \* package-level bullet id counter (weapon.go:152)
    usedIds,    \* player ids handed out so far (generatePlayerID never repeats)
    submitted,  \* how many commands the clients have sent so far
    lastJoin,   \* the last AddPlayer call and what it returned
    spawnOf,    \* the spawn point each player present was given, by index
    lm,         \* the session registry (network.LobbyManager)
    lobbies,    \* every hub ever created, by code (network.Lobby)
    clients,    \* every connection ever accepted, by id (network.Client)
    tasks       \* the position of each request / pump task of the network layer

vars == <<g, now, idCounter, usedIds, submitted, lastJoin, spawnOf, lm, lobbies, clients, tasks>>

gameVars == <<g, now, idCounter, usedIds, submitted, lastJoin, spawnOf>>
netVars == <<lm, lobbies, clients, tasks>>

----------------------------------------------------------------------------
(* Bounds of the model *)

NumIds == 3          \* player ids available to join one match
MaxTime == 2         \* the clock stops here
InputChanCap == 1    \* capacity given to Game.InputChan (the source uses 100)
MaxCommands == 1     \* commands the clients send in one behaviour
MaxCalls == 4        \* requests the registry receives in one behaviour

PlayerIds == 1 .. NumIds

NoThread == <<"none", 0>>
Unlocked == [w |-> NoThread, r |-> {}]

\* NewLobbyManager, no request under way, no connection yet
InitNet ==
    /\ lm = [lobbies |-> {}, mu |-> Unlocked, crashed |-> FALSE]
    /\ lobbies = [c \in {} |-> 0]
    /\ clients = [k \in {} |-> 0]
    /\ tasks = [sweep |-> [pc |-> "idle", todo |-> {}, cur |-> 0],
                create |-> [pc |-> "idle", err |-> ""],
                list |-> [pc |-> "idle", todo |-> {}, cur |-> 0],
                connect |-> [pc |-> "idle", code |-> 0, client |-> 0],
                calls |-> 0]

----------------------------------------------------------------------------
(* Program constants *)

NoWinner == 0              \* WinnerID "" : nobody has won
ZeroTime == -1000          \* the zero time.Time a weapon's lastFired starts at
MaxPlayersPerLobby == 2
MapWidth == 1200
MapHeight == 800
SpawnInset == 100
TankSpeed == 50            \* 200 px/s
TankSize == 40
TankHealth == 100
CannonCooldown == 2        \* 500 ms
CannonMuzzle == 30
CannonSpeed == 150         \* 600 px/s
CannonDamage == 100
CannonMaxAge == 12         \* 3 s
MortarCooldown == 12       \* 3 s
MortarMaxAmmo == 3
MortarRecharge == 40       \* 10 s
MortarRange == 300
MortarDamage == 100
MortarMaxAge == 16         \* 4 s
MortarDelay == 12          \* 3 s
MortarRadius == 50
BulletRadius == 5
IdLetters == 26
IdDigits == 10

StateWaiting == "waiting"
StatePlaying == "playing"
StateGameOver == "gameover"

WeaponCannon == "cannon"
WeaponMortar == "mortar"

BulletNormal == "normal"
BulletMortar == "mortar"

----------------------------------------------------------------------------
(* vector.go *)

Vec(x, y) == [X |-> x, Y |-> y]

Abs(n) == IF n < 0 THEN -n ELSE n
Sgn(n) == IF n < 0 THEN -1 ELSE IF n > 0 THEN 1 ELSE 0
Min(a, b) == IF a < b THEN a ELSE b
Max(a, b) == IF a > b THEN a ELSE b

RECURSIVE SqrtBetween(_, _, _)
SqrtBetween(n, lo, hi) ==
    IF hi - lo <= 1 THEN (IF hi * hi <= n THEN hi ELSE lo)
    ELSE LET mid == (lo + hi) \div 2
         IN  IF mid * mid <= n THEN SqrtBetween(n, mid, hi)
             ELSE SqrtBetween(n, lo, mid)

\* math.Sqrt, rounded down to an integer
ISqrt(n) == SqrtBetween(n, 0, 2048)

VAdd(v, w) == Vec(v.X + w.X, v.Y + w.Y)
VSub(v, w) == Vec(v.X - w.X, v.Y - w.Y)
VLength(v) == ISqrt(v.X * v.X + v.Y * v.Y)

\* An angle is kept as a vector pointing in its direction: Angle() of the
\* zero vector is atan2(0, 0) = 0, the direction of (1, 0).
Angle(v) == IF v.X = 0 /\ v.Y = 0 THEN Vec(1, 0) ELSE v

\* x * s / l rounded toward zero
ScaleDiv(x, s, l) == Sgn(x) * ((((Abs(x) * 1000) \div l) * s) \div 1000)

\* v.Normalize().Scale(s): the zero vector maps to itself
NormScale(v, s) ==
    LET l == VLength(v)
    IN  IF l = 0 THEN Vec(0, 0)
        ELSE Vec(ScaleDiv(v.X, s, l), ScaleDiv(v.Y, s, l))

\* FromAngle(a).Scale(s)
FromAngleScale(a, s) == NormScale(Angle(a), s)

RectContains(w, h, p) == p.X >= 0 /\ p.X <= w /\ p.Y >= 0 /\ p.Y <= h

Circle(c, r) == [Center |-> c, Radius |-> r]

CircleIntersects(c, d) ==
    LET dx == c.Center.X - d.Center.X
        dy == c.Center.Y - d.Center.Y
        rr == c.Radius + d.Radius
    IN  dx * dx + dy * dy <= rr * rr

----------------------------------------------------------------------------
(* weapon.go: Cannon, Mortar, generateID *)

\* the id generateID returns once idCounter has been incremented to idc
GenerateID(idc) == <<idc % IdLetters, idc % IdDigits>>

NewCannon == [lastFired |-> ZeroTime]

CannonCanFireAlways(c, t) == TRUE

CannonCanFire(c, t) == t - c.lastFired >= CannonCooldown

\* Cannon.Fire at time t: the weapon afterwards and the bullets produced
CannonFire(c, origin, angle, ownerID, t, idc) ==
    IF ~CannonCanFire(c, t)
    THEN [weapon |-> c, bullets |-> <<>>, idCounter |-> idc]
    ELSE [weapon |-> [c EXCEPT !.lastFired = t],
          bullets |-> << [ID |-> GenerateID(idc + 1),
                          OwnerID |-> ownerID,
                          Position |-> VAdd(origin, FromAngleScale(angle, CannonMuzzle)),
                          Velocity |-> FromAngleScale(angle, CannonSpeed),
                          Type |-> BulletNormal,
                          Damage |-> CannonDamage,
                          CreatedAt |-> t,
                          MaxAge |-> CannonMaxAge,
                          ImpactPos |-> Vec(0, 0),
                          ImpactTime |-> ZeroTime,
                          ImpactRadius |-> 0,
                          HasImpacted |-> FALSE] >>,
          idCounter |-> idc + 1]

NewMortar == [lastFired |-> ZeroTime, ammo |-> MortarMaxAmmo, rechargeTimer |-> 0]

MortarCanFireNoAmmo(m, t) == t - m.lastFired >= MortarCooldown

MortarCanFire(m, t) == m.ammo > 0 /\ t - m.lastFired >= MortarCooldown

MortarFire(m, origin, angle, ownerID, t, idc) ==
    IF ~MortarCanFire(m, t)
    THEN [weapon |-> m, bullets |-> <<>>, idCounter |-> idc]
    ELSE [weapon |-> [m EXCEPT !.lastFired = t, !.ammo = m.ammo - 1],
          bullets |-> << [ID |-> GenerateID(idc + 1),
                          OwnerID |-> ownerID,
                          Position |-> origin,
                          Velocity |-> Vec(0, 0),
                          Type |-> BulletMortar,
                          Damage |-> MortarDamage,
                          CreatedAt |-> t,
                          MaxAge |-> MortarMaxAge,
                          ImpactPos |-> VAdd(origin, FromAngleScale(angle, MortarRange)),
                          ImpactTime |-> t + MortarDelay,
                          ImpactRadius |-> MortarRadius,
                          HasImpacted |-> FALSE] >>,
          idCounter |-> idc + 1]

MortarUpdateNoCap(m, dt) ==
    IF m.rechargeTimer + dt >= MortarRecharge
    THEN [m EXCEPT !.ammo = m.ammo + 1, !.rechargeTimer = 0]
    ELSE [m EXCEPT !.rechargeTimer = m.rechargeTimer + dt]

MortarUpdate(m, dt) ==
    IF m.ammo < MortarMaxAmmo
    THEN IF m.rechargeTimer + dt >= MortarRecharge
         THEN [m EXCEPT !.ammo = m.ammo + 1, !.rechargeTimer = 0]
         ELSE [m EXCEPT !.rechargeTimer = m.rechargeTimer + dt]
    ELSE m

----------------------------------------------------------------------------
(* game.go (second part): Bullet *)

BulletUpdateAtImpact(b, dt, t) ==
    IF t - b.CreatedAt > b.MaxAge THEN <<>>
    ELSE IF b.Type = BulletNormal
         THEN << [b EXCEPT !.Position = Vec(b.Position.X + b.Velocity.X * dt,
                                            b.Position.Y + b.Velocity.Y * dt)] >>
         ELSE IF t >= b.ImpactTime /\ ~b.HasImpacted
              THEN << [b EXCEPT !.HasImpacted = TRUE, !.Position = b.ImpactPos] >>
              ELSE << b >>

\* Bullet.Update: <<b>> with the bullet as updated, or <<>> if it is to be removed
BulletUpdate(b, dt, t) ==
    IF t - b.CreatedAt > b.MaxAge THEN <<>>
    ELSE IF b.Type = BulletNormal
         THEN << [b EXCEPT !.Position = Vec(b.Position.X + b.Velocity.X * dt,
                                            b.Position.Y + b.Velocity.Y * dt)] >>
         ELSE IF t > b.ImpactTime /\ ~b.HasImpacted
              THEN << [b EXCEPT !.HasImpacted = TRUE, !.Position = b.ImpactPos] >>
              ELSE << b >>

BulletGetHitbox(b) ==
    Circle(b.Position,
           IF b.Type = BulletMortar /\ b.HasImpacted THEN b.ImpactRadius ELSE BulletRadius)

BulletIsActive(b) ==
    IF b.Type = BulletNormal THEN TRUE
    ELSE IF b.Type = BulletMortar THEN b.HasImpacted
    ELSE FALSE

----------------------------------------------------------------------------
(* tank.go *)

ZeroInput == [Up |-> FALSE, Down |-> FALSE, Left |-> FALSE, Right |-> FALSE,
              MouseX |-> 0, MouseY |-> 0, Firing |-> FALSE]

NewTank(id, pos) ==
    [ID |-> id, Position |-> pos, Rotation |-> Vec(1, 0), TurretAngle |-> Vec(1, 0),
     Health |-> TankHealth, MaxHealth |-> TankHealth, ActiveWeapon |-> WeaponCannon,
     Cannon |-> NewCannon, Mortar |-> NewMortar, Input |-> ZeroInput]

Clamp(x, lo, hi) == Max(lo, Min(x, hi))

TankUpdate(t, dt) ==
    LET moveDir == Vec((IF t.Input.Right THEN 1 ELSE 0) - (IF t.Input.Left THEN 1 ELSE 0),
                       (IF t.Input.Down THEN 1 ELSE 0) - (IF t.Input.Up THEN 1 ELSE 0))
        moved == moveDir.X # 0 \/ moveDir.Y # 0
        stepped == VAdd(t.Position, NormScale(moveDir, TankSpeed * dt))
        halfSize == TankSize \div 2
        newPos == IF moved
                  THEN Vec(Clamp(stepped.X, halfSize, MapWidth - halfSize),
                           Clamp(stepped.Y, halfSize, MapHeight - halfSize))
                  ELSE t.Position
    IN  [t EXCEPT !.Position = newPos,
                  !.Rotation = IF moved THEN Angle(moveDir) ELSE t.Rotation,
                  !.TurretAngle = Angle(VSub(Vec(t.Input.MouseX, t.Input.MouseY), newPos)),
                  !.Mortar = MortarUpdate(t.Mortar, dt)]

\* Tank.Fire: the tank afterwards, the bullets produced, the id counter afterwards
TankFire(t, time, idc) ==
    IF t.ActiveWeapon = WeaponCannon
    THEN LET r == CannonFire(t.Cannon, t.Position, t.TurretAngle, t.ID, time, idc)
         IN  [tank |-> [t EXCEPT !.Cannon = r.weapon],
              bullets |-> r.bullets, idCounter |-> r.idCounter]
    ELSE IF t.ActiveWeapon = WeaponMortar
    THEN LET r == MortarFire(t.Mortar, t.Position, t.TurretAngle, t.ID, time, idc)
         IN  [tank |-> [t EXCEPT !.Mortar = r.weapon],
              bullets |-> r.bullets, idCounter |-> r.idCounter]
    ELSE [tank |-> t, bullets |-> <<>>, idCounter |-> idc]

TankSwitchWeapon(t, weapon) == [t EXCEPT !.ActiveWeapon = weapon]

TakeDamageUnclamped(t, amount) == [t EXCEPT !.Health = t.Health + amount]

TakeDamage(t, amount) ==
    [t EXCEPT !.Health = IF t.Health - amount < 0 THEN 0 ELSE t.Health - amount]

IsAlive(t) == t.Health > 0

TankGetHitbox(t) == Circle(t.Position, TankSize \div 2)

----------------------------------------------------------------------------
(* map.go *)

GetSpawnPoints ==
    << Vec(SpawnInset, MapHeight \div 2), Vec(MapWidth - SpawnInset, MapHeight \div 2) >>

----------------------------------------------------------------------------
(* weapon.go (second part): Game *)

NoTanks == [id \in {} |-> NewTank(id, Vec(0, 0))]

\* Run's control state: "spawned" (go g.Run() issued), "select" (at the
\* multiplexed wait), "broadcast" (update done, broadcast pending), "exited"
\* input is the select's variable of that name, handled counts its receptions
NoInput == [PlayerID |-> 0, Action |-> "", Input |-> ZeroInput, Weapon |-> ""]

NewLoop == [pc |-> "spawned", lastUpdate |-> 0, tick |-> FALSE,
            input |-> NoInput, handled |-> 0]

\* NewGame.  stopCalled records that Stop was called, wins the ids assigned
\* to WinnerID so far
NewGame ==
    [State |-> StateWaiting, Tanks |-> NoTanks, Bullets |-> <<>>, WinnerID |-> NoWinner,
     InputChan |-> <<>>, stopClosed |-> FALSE, running |-> FALSE, loops |-> <<>>,
     stopCalled |-> FALSE, wins |-> <<>>]

NumTanks(game) == Cardinality(DOMAIN game.Tanks)

AddTank(tanks, id, t) == [x \in DOMAIN tanks \cup {id} |-> IF x = id THEN t ELSE tanks[x]]

DelTank(tanks, id) == [x \in DOMAIN tanks \ {id} |-> tanks[x]]

AddPlayerNoCap(game, playerID) ==
    [game |-> [game EXCEPT !.Tanks = AddTank(game.Tanks, playerID,
                                NewTank(playerID, GetSpawnPoints[Min(NumTanks(game), 1) + 1]))],
     ok |-> TRUE]

AddPlayerRestart(game, playerID) ==
    IF NumTanks(game) >= 2 THEN [game |-> game, ok |-> FALSE]
    ELSE LET tanks == AddTank(game.Tanks, playerID,
                              NewTank(playerID, GetSpawnPoints[NumTanks(game) + 1]))
         IN  [game |-> IF Cardinality(DOMAIN tanks) = 2
                       THEN [game EXCEPT !.Tanks = tanks, !.State = StatePlaying,
                                         !.loops = Append(game.loops, NewLoop)]
                       ELSE [game EXCEPT !.Tanks = tanks],
              ok |-> TRUE]

\* Game.AddPlayer: the game afterwards and the value returned
AddPlayer(game, playerID) ==
    IF NumTanks(game) >= 2 THEN [game |-> game, ok |-> FALSE]
    ELSE LET tanks == AddTank(game.Tanks, playerID,
                              NewTank(playerID, GetSpawnPoints[NumTanks(game) + 1]))
         IN  [game |-> IF Cardinality(DOMAIN tanks) = 2 /\ game.State = StateWaiting
                       THEN [game EXCEPT !.Tanks = tanks, !.State = StatePlaying,
                                         !.loops = Append(game.loops, NewLoop)]
                       ELSE [game EXCEPT !.Tanks = tanks],
              ok |-> TRUE]

RemovePlayerStaysPlaying(game, playerID) ==
    [game EXCEPT !.Tanks = DelTank(game.Tanks, playerID)]

RemovePlayerBackToWaiting(game, playerID) ==
    LET tanks == DelTank(game.Tanks, playerID)
    IN  IF Cardinality(DOMAIN tanks) < 2 /\ game.State = StateGameOver
        THEN [game EXCEPT !.Tanks = tanks, !.State = StateWaiting]
        ELSE IF game.State = StatePlaying /\ Cardinality(DOMAIN tanks) = 1
        THEN [game EXCEPT !.Tanks = tanks,
                          !.WinnerID = CHOOSE id \in DOMAIN tanks : TRUE,
                          !.State = StateGameOver]
        ELSE [game EXCEPT !.Tanks = tanks]

RemovePlayerWrongWinner(game, playerID) ==
    LET tanks == DelTank(game.Tanks, playerID)
    IN  IF game.State = StatePlaying /\ Cardinality(DOMAIN tanks) = 1
        THEN [game EXCEPT !.Tanks = tanks, !.WinnerID = playerID, !.State = StateGameOver]
        ELSE [game EXCEPT !.Tanks = tanks]

\* Game.RemovePlayer
RemovePlayer(game, playerID) ==
    LET tanks == DelTank(game.Tanks, playerID)
    IN  IF game.State = StatePlaying /\ Cardinality(DOMAIN tanks) = 1
        THEN [game EXCEPT !.Tanks = tanks,
                          !.WinnerID = CHOOSE id \in DOMAIN tanks : TRUE,
                          !.wins = Append(game.wins, CHOOSE id \in DOMAIN tanks : TRUE),
                          !.State = StateGameOver]
        ELSE [game EXCEPT !.Tanks = tanks]

\* Game.processInput: the game and the bullet id counter afterwards
ProcessInput(game, input, t, idc) ==
    IF input.PlayerID \notin DOMAIN game.Tanks THEN [game |-> game, idCounter |-> idc]
    ELSE LET tank == game.Tanks[input.PlayerID]
         IN  IF input.Action = "input"
             THEN [game |-> [game EXCEPT !.Tanks[input.PlayerID].Input = input.Input],
                   idCounter |-> idc]
             ELSE IF input.Action = "fire"
             THEN LET r == TankFire(tank, t, idc)
                  IN  [game |-> [game EXCEPT !.Tanks[input.PlayerID] = r.tank,
                                             !.Bullets = game.Bullets \o r.bullets],
                       idCounter |-> r.idCounter]
             ELSE IF input.Action = "switch_weapon"
             THEN [game |-> [game EXCEPT !.Tanks[input.PlayerID] =
                                             TankSwitchWeapon(tank, input.Weapon)],
                   idCounter |-> idc]
             ELSE [game |-> game, idCounter |-> idc]

\* the orders in which a range loop may visit the keys of a map
RECURSIVE Orders(_)
Orders(S) ==
    IF S = {} THEN { <<>> }
    ELSE UNION { { <<x>> \o o : o \in Orders(S \ {x}) } : x \in S }

\* update's loop over the tanks, visited in the given order
RECURSIVE UpdateTanks(_, _, _, _, _, _)
UpdateTanks(order, tanks, bullets, idc, dt, t) ==
    IF order = <<>> THEN [Tanks |-> tanks, Bullets |-> bullets, idCounter |-> idc]
    ELSE LET id == Head(order)
             moved == TankUpdate(tanks[id], dt)
             r == IF moved.Input.Firing THEN TankFire(moved, t, idc)
                  ELSE [tank |-> moved, bullets |-> <<>>, idCounter |-> idc]
         IN  UpdateTanks(Tail(order), [tanks EXCEPT ![id] = r.tank],
                         bullets \o r.bullets, r.idCounter, dt, t)

\* update's loop over the bullets: the bullets kept
RECURSIVE UpdateBullets(_, _, _)
UpdateBullets(bullets, dt, t) ==
    IF bullets = <<>> THEN <<>>
    ELSE LET u == BulletUpdate(Head(bullets), dt, t)
             keep == IF u = <<>> THEN <<>>
                     ELSE IF RectContains(MapWidth, MapHeight, u[1].Position)
                             \/ u[1].Type = BulletMortar
                          THEN u ELSE <<>>
         IN  keep \o UpdateBullets(Tail(bullets), dt, t)

CanHitAnyone(b, tanks) ==
    { id \in DOMAIN tanks :
        CircleIntersects(BulletGetHitbox(b), TankGetHitbox(tanks[id])) }

\* the tanks bullet b can hit: the range loop over the tanks stops at the
\* first of them it visits
CanHit(b, tanks) ==
    { id \in DOMAIN tanks :
        /\ ~(b.OwnerID = id /\ b.Type = BulletNormal)
        /\ CircleIntersects(BulletGetHitbox(b), TankGetHitbox(tanks[id])) }

RECURSIVE CollideEvery(_, _, _, _, _, _)
CollideEvery(bullets, i, tanks, hit, state, winner) ==
    IF i > Len(bullets)
    THEN { [Tanks |-> tanks, hit |-> hit, State |-> state, WinnerID |-> winner,
             wins |-> <<>>] }
    ELSE IF ~BulletIsActive(bullets[i]) \/ CanHit(bullets[i], tanks) = {}
    THEN CollideEvery(bullets, i + 1, tanks, hit, state, winner)
    ELSE LET struck == CanHit(bullets[i], tanks)
             tanks2 == [id \in DOMAIN tanks |->
                          IF id \in struck THEN TakeDamage(tanks[id], bullets[i].Damage)
                          ELSE tanks[id]]
             dead == { id \in struck : ~IsAlive(tanks2[id]) }
         IN  IF dead = {}
             THEN CollideEvery(bullets, i + 1, tanks2, hit \cup {i}, state, winner)
             ELSE UNION { { [r EXCEPT !.wins = <<w>> \o r.wins] :
                              r \in CollideEvery(bullets, i + 1, tanks2, hit \cup {i},
                                                 StateGameOver, w) } :
                            w \in IF Cardinality(DOMAIN tanks) = 1 THEN {winner}
                                  ELSE UNION { DOMAIN tanks \ {id} : id \in dead } }

\* Game.checkCollisions from bullet i on: every outcome the iteration order
\* of the tank map allows.  hit is bulletsToRemove, wins the ids assigned to
\* g.WinnerID, in the order of the assignments.
RECURSIVE Collide(_, _, _, _, _, _)
Collide(bullets, i, tanks, hit, state, winner) ==
    IF i > Len(bullets)
    THEN { [Tanks |-> tanks, hit |-> hit, State |-> state, WinnerID |-> winner,
             wins |-> <<>>] }
    ELSE IF ~BulletIsActive(bullets[i]) \/ CanHit(bullets[i], tanks) = {}
    THEN Collide(bullets, i + 1, tanks, hit, state, winner)
    ELSE UNION {
           LET t2 == TakeDamage(tanks[id], bullets[i].Damage)
               tanks2 == [tanks EXCEPT ![id] = t2]
               others == DOMAIN tanks \ {id}
           IN  IF IsAlive(t2)
               THEN Collide(bullets, i + 1, tanks2, hit \cup {i}, state, winner)
               ELSE IF others = {}
               THEN Collide(bullets, i + 1, tanks2, hit \cup {i}, StateGameOver, winner)
               ELSE UNION { { [r EXCEPT !.wins = <<w>> \o r.wins] :
                                r \in Collide(bullets, i + 1, tanks2, hit \cup {i},
                                              StateGameOver, w) } :
                              w \in others }
           : id \in CanHit(bullets[i], tanks) }

RECURSIVE RemoveHit(_, _, _)
RemoveHit(bullets, hit, i) ==
    IF i > Len(bullets) THEN <<>>
    ELSE (IF i \in hit THEN <<>> ELSE << bullets[i] >>) \o RemoveHit(bullets, hit, i + 1)

CheckCollisions(game) ==
    { [game EXCEPT !.Tanks = c.Tanks, !.State = c.State, !.WinnerID = c.WinnerID,
                   !.wins = game.wins \o c.wins,
                   !.Bullets = RemoveHit(game.Bullets, c.hit, 1)] :
        c \in Collide(game.Bullets, 1, game.Tanks, {}, game.State, game.WinnerID) }

\* Game.update: every outcome, as [game, idCounter]
Update(game, dt, t, idc) ==
    IF game.State # StatePlaying THEN { [game |-> game, idCounter |-> idc] }
    ELSE UNION {
           LET u == UpdateTanks(order, game.Tanks, game.Bullets, idc, dt, t)
               moved == [game EXCEPT !.Tanks = u.Tanks,
                                     !.Bullets = UpdateBullets(u.Bullets, dt, t)]
           IN  { [game |-> c, idCounter |-> u.idCounter] : c \in CheckCollisions(moved) }
           : order \in Orders(DOMAIN game.Tanks) }

\* Bullet.GetFlightProgress at time t, as the fraction <<elapsed, total>>
GetFlightProgress(b, t) ==
    IF b.Type # BulletMortar THEN <<1, 1>>
    ELSE LET totalFlight == b.ImpactTime - b.CreatedAt
             elapsed == t - b.CreatedAt
         IN  IF elapsed >= totalFlight THEN <<1, 1>> ELSE <<elapsed, totalFlight>>

\* Bullet.ToState at time t
BulletToState(b, t) ==
    [ID |-> b.ID, OwnerID |-> b.OwnerID, Position |-> b.Position, Type |-> b.Type,
     ImpactPos |-> b.ImpactPos, FlightProgress |-> GetFlightProgress(b, t),
     ImpactRadius |-> b.ImpactRadius]

\* Tank.ToState
TankToState(t) ==
    [ID |-> t.ID, Position |-> t.Position, Rotation |-> t.Rotation,
     TurretAngle |-> t.TurretAngle, Health |-> t.Health, MaxHealth |-> t.MaxHealth,
     ActiveWeapon |-> t.ActiveWeapon, MortarAmmo |-> t.Mortar.ammo,
     MortarMaxAmmo |-> MortarMaxAmmo]

\* Game.GetState called at time t
GetState(game, t) ==
    [Type |-> "game_state",
     State |-> game.State,
     Tanks |-> [id \in DOMAIN game.Tanks |-> TankToState(game.Tanks[id])],
     Bullets |-> [i \in DOMAIN game.Bullets |-> BulletToState(game.Bullets[i], t)],
     Map |-> [Width |-> MapWidth, Height |-> MapHeight],
     WinnerID |-> game.WinnerID]

HandleInputUnbounded(game, input) ==
    [game EXCEPT !.InputChan = Append(game.InputChan, input)]

HandleInputFirst(game, input, cap) ==
    IF Len(game.InputChan) < cap
    THEN [game EXCEPT !.InputChan = <<input>> \o game.InputChan]
    ELSE game

\* the non-blocking send of HandleInput on an InputChan made with capacity cap
HandleInputWithin(game, input, cap) ==
    IF Len(game.InputChan) < cap
    THEN [game EXCEPT !.InputChan = Append(game.InputChan, input)]
    ELSE game

\* Game.HandleInput
HandleInput(game, input) == HandleInputWithin(game, input, InputChanCap)

\* Game.Stop
Stop(game) == IF game.running THEN [game EXCEPT !.stopClosed = TRUE] ELSE game

----------------------------------------------------------------------------
(* The match simulation driven through its API: AddPlayer / RemovePlayer   *)
(* (called by the hub), HandleInput (called by the inbound pumps), Stop,   *)
(* and the steps of the Run loop.                                          *)

\* the input snapshots clients send (client.go handleInput)
DriveEast == [Up |-> FALSE, Down |-> FALSE, Left |-> FALSE, Right |-> TRUE,
              MouseX |-> MapWidth, MouseY |-> MapHeight \div 2, Firing |-> FALSE]
DriveWest == [Up |-> FALSE, Down |-> FALSE, Left |-> TRUE, Right |-> FALSE,
              MouseX |-> 0, MouseY |-> MapHeight \div 2, Firing |-> FALSE]
HoldEast == [DriveEast EXCEPT !.Right = FALSE]
HoldWest == [DriveWest EXCEPT !.Left = FALSE]
ChargeWest == [DriveWest EXCEPT !.Firing = TRUE]

InputStates == { ChargeWest }

\* game.PlayerInput values built by handleInput, handleFire, handleSwitchWeapon
InputCmd(p, i) == [PlayerID |-> p, Action |-> "input", Input |-> i, Weapon |-> ""]
FireCmd(p) == [PlayerID |-> p, Action |-> "fire", Input |-> ZeroInput, Weapon |-> ""]
SwitchCmd(p, w) == [PlayerID |-> p, Action |-> "switch_weapon", Input |-> ZeroInput, Weapon |-> w]

PlayerInputs ==
    { InputCmd(p, i) : p \in PlayerIds, i \in InputStates }
    \cup { FireCmd(p) : p \in PlayerIds }

\* which of the spawn points a position is
SpawnIndex(pos) == CHOOSE i \in DOMAIN GetSpawnPoints : GetSpawnPoints[i] = pos

InitGame ==
    /\ g = NewGame
    /\ now = 0
    /\ idCounter = 0
    /\ usedIds = {}
    /\ submitted = 0
    /\ lastJoin = [id |-> NoWinner, ok |-> FALSE]
    /\ spawnOf = [id \in {} |-> 1]

\* A match met in mid-game.  The clock counts from the first state of a
\* behaviour; this state is the one the match is in after players 1 and 2
\* joined, Run started ApproachTime before, both drove toward each other
\* without firing until one tick moved them, and both then let go of the keys.
ApproachTime == 2 * 4

Joined == AddPlayer(AddPlayer(NewGame, 1).game, 2).game

Driving ==
    LET started == [Joined EXCEPT !.running = TRUE,
                                  !.loops[1] = [NewLoop EXCEPT
                                                  !.pc = "select",
                                                  !.lastUpdate = 0 - ApproachTime]]
        one == ProcessInput(started, InputCmd(1, DriveEast), 0 - ApproachTime, 0).game
    IN  ProcessInput(one, InputCmd(2, DriveWest), 0 - ApproachTime, 0).game

Engaged ==
    LET met == (CHOOSE r \in Update(Driving, ApproachTime, 0, 0) : TRUE).game
        one == ProcessInput(met, InputCmd(1, HoldEast), 0, 0).game
        two == ProcessInput(one, InputCmd(2, HoldWest), 0, 0).game
    IN  [two EXCEPT !.loops[1].lastUpdate = 0]

InitEngaged ==
    /\ g = Engaged
    /\ now = 0
    /\ idCounter = 0
    /\ usedIds = {1, 2}
    /\ submitted = 0
    /\ lastJoin = [id |-> 2, ok |-> TRUE]
    /\ spawnOf = [id \in {1, 2} |-> SpawnIndex(Joined.Tanks[id].Position)]

Init == (InitGame \/ InitEngaged) /\ InitNet

\* a connection with a fresh id is registered: the hub calls AddPlayer
Join(p) ==
    /\ p \notin usedIds
    /\ \A q \in PlayerIds : q < p => q \in usedIds
    /\ usedIds' = usedIds \cup {p}
    /\ g' = AddPlayer(g, p).game
    /\ lastJoin' = [id |-> p, ok |-> AddPlayer(g, p).ok]
    /\ spawnOf' = IF AddPlayer(g, p).ok
                  THEN [id \in DOMAIN spawnOf \cup {p} |->
                           IF id = p THEN SpawnIndex(g'.Tanks[p].Position) ELSE spawnOf[id]]
                  ELSE spawnOf
    /\ UNCHANGED <<now, idCounter, submitted, netVars>>

\* a connection goes away: the hub calls RemovePlayer
Leave(p) ==
    /\ p \in usedIds
    /\ g' = RemovePlayer(g, p)
    /\ spawnOf' = [id \in DOMAIN spawnOf \ {p} |-> spawnOf[id]]
    /\ UNCHANGED <<now, idCounter, usedIds, submitted, lastJoin, netVars>>

\* an inbound pump forwards a client message
SubmitCommand(input) ==
    /\ input.PlayerID \in DOMAIN g.Tanks
    /\ submitted < MaxCommands
    /\ submitted' = submitted + 1
    /\ g' = HandleInput(g, input)
    /\ UNCHANGED <<now, idCounter, usedIds, lastJoin, spawnOf, netVars>>

\* the hub is closed: Lobby.Close calls Stop, once (stopCalled records it)
StopGame ==
    /\ ~g.stopCalled
    /\ g' = [Stop(g) EXCEPT !.stopCalled = TRUE]
    /\ UNCHANGED <<now, idCounter, usedIds, submitted, lastJoin, spawnOf, netVars>>

\* Run up to its first select: running = true, ticker created, lastUpdate taken
RunStart(i) ==
    /\ g.loops[i].pc = "spawned"
    /\ g' = [g EXCEPT !.running = TRUE,
                      !.loops[i] = [g.loops[i] EXCEPT !.pc = "select",
                                                      !.lastUpdate = now,
                                                      !.tick = FALSE]]
    /\ UNCHANGED <<now, idCounter, usedIds, submitted, lastJoin, spawnOf, netVars>>

\* where the loop goes after a case of the select: for g.running { ... }
LoopNext(game) == IF game.running THEN "select" ELSE "exited"

\* case <-g.stopChan
RunStop(i) ==
    /\ g.loops[i].pc = "select"
    /\ g.stopClosed
    /\ g' = [g EXCEPT !.running = FALSE, !.loops[i].pc = "exited"]
    /\ UNCHANGED <<now, idCounter, usedIds, submitted, lastJoin, spawnOf, netVars>>

\* case input := <-g.InputChan
RunInput(i) ==
    /\ g.loops[i].pc = "select"
    /\ g.InputChan # <<>>
    /\ LET r == ProcessInput([g EXCEPT !.InputChan = Tail(g.InputChan)],
                             Head(g.InputChan), now, idCounter)
       IN  /\ g' = [r.game EXCEPT !.loops[i].pc = LoopNext(r.game),
                                   !.loops[i].input = Head(g.InputChan),
                                   !.loops[i].handled = g.loops[i].handled + 1]
           /\ idCounter' = r.idCounter
    /\ UNCHANGED <<now, usedIds, submitted, lastJoin, spawnOf, netVars>>

\* case <-ticker.C, up to the return of g.update(dt)
RunTick(i) ==
    /\ g.loops[i].pc = "select"
    /\ g.loops[i].tick
    /\ \E r \in Update(g, now - g.loops[i].lastUpdate, now, idCounter) :
         /\ g' = [r.game EXCEPT !.loops[i] =
                      [g.loops[i] EXCEPT !.pc = "broadcast",
                                         !.lastUpdate = now,
                                         !.tick = FALSE]]
         /\ idCounter' = r.idCounter
    /\ UNCHANGED <<now, usedIds, submitted, lastJoin, spawnOf, netVars>>

\* g.broadcast(), then back to the loop condition
RunBroadcast(i) ==
    /\ g.loops[i].pc = "broadcast"
    /\ g' = [g EXCEPT !.loops[i].pc = LoopNext(g)]
    /\ UNCHANGED <<now, idCounter, usedIds, submitted, lastJoin, spawnOf, netVars>>

\* the clock advances; every live ticker has a tick ready (its channel holds one)
AdvanceTime ==
    /\ now < MaxTime
    /\ \E i \in DOMAIN g.loops : g.loops[i].pc # "spawned"
    /\ now' = now + 1
    /\ g' = [g EXCEPT !.loops =
                [i \in DOMAIN g.loops |->
                    IF g.loops[i].pc \in {"select", "broadcast"}
                    THEN [g.loops[i] EXCEPT !.tick = TRUE]
                    ELSE g.loops[i]]]
    /\ UNCHANGED <<idCounter, usedIds, submitted, lastJoin, spawnOf, netVars>>

Next ==
    \/ \E p \in PlayerIds : Join(p)
    \/ \E p \in PlayerIds : Leave(p)
    \/ \E input \in PlayerInputs : SubmitCommand(input)
    \/ \E i \in DOMAIN g.loops : RunStart(i)
    \/ \E i \in DOMAIN g.loops : RunInput(i)
    \/ \E i \in DOMAIN g.loops : RunTick(i)
    \/ \E i \in DOMAIN g.loops : RunBroadcast(i)
    \/ AdvanceTime

Spec == Init /\ [][Next]_vars

----------------------------------------------------------------------------
(* A match followed over the life of a mortar shell.  The starting         *)
(* states are states of a match under way, each produced from NewGame by   *)
(* the operators above; the clock counts from the first state.             *)

MaxDuelTime == 16    \* the clock of a duel stops here
MaxShots == 2        \* commands the clients send during one duel

ChargeEast == [DriveEast EXCEPT !.Firing = TRUE]

\* the match after players 1 and 2 joined and Run started at time t0
Started(t0) ==
    [game |-> [Joined EXCEPT !.running = TRUE,
                             !.loops[1] = [NewLoop EXCEPT !.pc = "select",
                                                          !.lastUpdate = t0]],
     idCounter |-> 0]

\* what Run did before the first state: a command received at a time, or a
\* tick taken at a time, dt after the update before
Cmd(t, input) == [at |-> t, input |-> input, dt |-> 0]
Tick(t, dt) == [at |-> t, input |-> NoInput, dt |-> dt]

\* one iteration of Run's loop on [game, idCounter]: every outcome
Iterate(r, e) ==
    IF e.dt = 0
    THEN { ProcessInput(r.game, e.input, e.at, r.idCounter) }
    ELSE { [game |-> [u.game EXCEPT !.loops[1].lastUpdate = e.at],
            idCounter |-> u.idCounter] :
             u \in Update(r.game, e.dt, e.at, r.idCounter) }

\* the states Run can be in after the iterations of a history
RECURSIVE Replay(_, _)
Replay(r, history) ==
    IF history = <<>> THEN {r}
    ELSE UNION { Replay(n, Tail(history)) : n \in Iterate(r, Head(history)) }

\* player 1 chose the mortar and has driven east for 14 time units
Closing ==
    Replay(Started(0 - 14), << Cmd(0 - 14, InputCmd(1, DriveEast)),
                               Cmd(0 - 14, SwitchCmd(1, WeaponMortar)),
                               Tick(0, 14) >>)

\* player 1 fired the mortar every 12 time units and has just fired the last charge
Spent ==
    Replay(Started(0 - 24), << Cmd(0 - 24, SwitchCmd(1, WeaponMortar)),
                               Cmd(0 - 24, FireCmd(1)), Tick(0 - 12, 12),
                               Cmd(0 - 12, FireCmd(1)), Tick(0, 12),
                               Cmd(0, FireCmd(1)) >>)

DuelStarts == Closing \cup Spent

InitDuel ==
    /\ \E r \in DuelStarts : g = r.game /\ idCounter = r.idCounter
    /\ now = 0
    /\ usedIds = {1, 2}
    /\ submitted = 0
    /\ lastJoin = [id |-> 2, ok |-> TRUE]
    /\ spawnOf = [id \in {1, 2} |-> SpawnIndex(Joined.Tanks[id].Position)]
    /\ InitNet

DuelInputs == { FireCmd(1), InputCmd(1, ChargeEast) }

\* an inbound pump forwards a client message during a duel
SubmitShot(input) ==
    /\ submitted < MaxShots
    /\ submitted' = submitted + 1
    /\ g' = HandleInput(g, input)
    /\ UNCHANGED <<now, idCounter, usedIds, lastJoin, spawnOf, netVars>>

\* the clock of a duel advances; the ticker has a tick ready
Elapse ==
    /\ now < MaxDuelTime
    /\ now' = now + 1
    /\ g' = [g EXCEPT !.loops =
                [i \in DOMAIN g.loops |->
                    IF g.loops[i].pc \in {"select", "broadcast"}
                    THEN [g.loops[i] EXCEPT !.tick = TRUE]
                    ELSE g.loops[i]]]
    /\ UNCHANGED <<idCounter, usedIds, submitted, lastJoin, spawnOf, netVars>>

NextDuel ==
    \/ \E input \in DuelInputs : SubmitShot(input)
    \/ \E i \in DOMAIN g.loops : RunInput(i)
    \/ \E i \in DOMAIN g.loops : RunTick(i)
    \/ \E i \in DOMAIN g.loops : RunBroadcast(i)
    \/ Elapse

SpecDuel == InitDuel /\ [][NextDuel]_vars

----------------------------------------------------------------------------
(* checkCollisions on its own: it is applied once to a match being played  *)
(* whose tanks and bullets are drawn from the places below.                *)

MaxBullets == 2      \* bullets in the air when the collisions are checked

\* tank 1 stands at its spawn point, tank 2 at its own or next to tank 1
TankSpots == { GetSpawnPoints[2], Vec(GetSpawnPoints[1].X + 50, GetSpawnPoints[1].Y) }

Nowhere == Vec(MapWidth \div 2, SpawnInset)

\* a cannon bullet of owner, k-th bullet made, that has flown to pos
CannonShot(owner, k, pos) ==
    [CannonFire(NewCannon, pos, Vec(1, 0), owner, 0, k - 1).bullets[1]
        EXCEPT !.Position = pos]

\* a mortar shell of owner fired from pos a moment ago: it lies at pos
MortarShot(owner, k, pos) ==
    MortarFire(NewMortar, pos, Vec(1, 0), owner, 0, k - 1).bullets[1]

\* a mortar shell of owner aimed at pos, as Bullet.Update leaves it once its
\* impact time has passed
MortarBlast(owner, k, pos) ==
    LET west == pos.X < MapWidth \div 2
        from == Vec(IF west THEN pos.X + MortarRange ELSE pos.X - MortarRange, pos.Y)
        shell == MortarFire(NewMortar, from, Vec(IF west THEN -1 ELSE 1, 0), owner,
                            0 - MortarDelay - 1, k - 1).bullets[1]
    IN  BulletUpdate(shell, 1, 0)[1]

\* the bullets that can be the k-th in the air over the given tanks
Shots(tanks, k) ==
    UNION { { CannonShot(owner, k, pos), MortarShot(owner, k, pos),
              MortarBlast(owner, k, pos) } :
            owner \in DOMAIN tanks,
            pos \in { tanks[id].Position : id \in DOMAIN tanks } \cup { Nowhere } }

RECURSIVE Volleys(_, _)
Volleys(tanks, n) ==
    IF n = 0 THEN { <<>> }
    ELSE { Append(v, b) : v \in Volleys(tanks, n - 1), b \in Shots(tanks, n) }

InitCollide ==
    /\ \E spot \in TankSpots :
         LET game == [Started(0).game EXCEPT !.Tanks[2].Position = spot]
         IN  \E n \in 1..MaxBullets : \E v \in Volleys(game.Tanks, n) :
                g = [game EXCEPT !.Bullets = v, !.loops[1].tick = TRUE]
    /\ now = 0
    /\ idCounter = MaxBullets
    /\ usedIds = {1, 2}
    /\ submitted = 0
    /\ lastJoin = [id |-> 2, ok |-> TRUE]
    /\ spawnOf = [id \in {1, 2} |-> SpawnIndex(Joined.Tanks[id].Position)]
    /\ InitNet

\* g.checkCollisions(), the last call of update
CheckStep ==
    /\ g.loops[1].pc = "select"
    /\ g.loops[1].tick
    /\ \E c \in CheckCollisions(g) :
         g' = [c EXCEPT !.loops[1].pc = "broadcast", !.loops[1].tick = FALSE]
    /\ UNCHANGED <<now, idCounter, usedIds, submitted, lastJoin, spawnOf, netVars>>

SpecCollide == InitCollide /\ [][CheckStep]_vars

----------------------------------------------------------------------------
(* The network layer: the session registry (manager.go), the session hubs  *)
(* (lobby.go) and the connections with their two pumps (client.go).        *)
(* A hub is known by its code; codes and connection ids are never reused.  *)
(* Every sync.RWMutex is a record [w, r]: the thread holding it for        *)
(* writing (or NoThread) and the threads holding it for reading.           *)

NumCodes == 2        \* session codes generateLobbyCode can return
SendCap == 2         \* capacity given to Client.Send (the source uses 256)
BroadcastCap == 2    \* capacity given to Lobby.Broadcast (the source uses 256)

MaxLobbies == 5

Codes == 1 .. NumCodes

HubThread(c) == <<"hub", c>>
SweepThread == <<"sweep", 0>>
CreateThread == <<"create", 0>>
ListThread == <<"list", 0>>
ConnectThread == <<"connect", 0>>

CanLock(mu) == mu.w = NoThread /\ mu.r = {}
CanRLock(mu) == mu.w = NoThread

\* server messages (messages.go), as far as their content is modelled
ErrorMsg == [Type |-> "error", Count |-> 0]
ConnectedMsg(id) == [Type |-> "connected", Count |-> id]
LobbyInfoMsg(n) == [Type |-> "lobby_info", Count |-> n]

\* NewClient.  frame is what WritePump has given to the writer it holds, n
\* its loop bound, wrote everything it has written to the transport.
NewClient(code) ==
    [Lobby |-> code, Send |-> <<>>, sendClosed |-> FALSE, done |-> FALSE,
     connClosed |-> FALSE, read |-> "none", write |-> "none",
     frame |-> <<>>, n |-> 0, wrote |-> <<>>]

\* close(c.done): closing a closed channel panics
ClientClose(cl) == [client |-> [cl EXCEPT !.done = TRUE], panic |-> cl.done]

SendMessageNoRoom(cl, msg) ==
    IF cl.sendClosed THEN [client |-> cl, panic |-> TRUE] ELSE ClientClose(cl)

\* Client.SendMessage
SendMessage(cl, msg) ==
    IF cl.sendClosed THEN [client |-> cl, panic |-> TRUE]
    ELSE IF Len(cl.Send) < SendCap
    THEN [client |-> [cl EXCEPT !.Send = Append(cl.Send, msg)], panic |-> FALSE]
    ELSE ClientClose(cl)

\* NewLobby, with the hub's loop at its select
NewLobby(code) ==
    [Code |-> code, Game |-> NewGame, Clients |-> {}, closed |-> FALSE,
     expired |-> FALSE, mu |-> Unlocked, Broadcast |-> <<>>,
     pc |-> "select", cur |-> 0, msg |-> <<>>]

BroadcastMessageUnbounded(l, msg) == [l EXCEPT !.Broadcast = Append(l.Broadcast, msg)]

\* Lobby.BroadcastMessage: a non-blocking send on Broadcast
BroadcastMessage(l, msg) ==
    IF Len(l.Broadcast) < BroadcastCap
    THEN [l EXCEPT !.Broadcast = Append(l.Broadcast, msg)]
    ELSE l

\* Lobby.broadcastLobbyInfo
BroadcastLobbyInfo(l) == BroadcastMessage(l, LobbyInfoMsg(Cardinality(l.Clients)))

HandleRegisterNoCap(l, cl, id) ==
    LET sent == SendMessage(cl, ConnectedMsg(id))
        joined == [l EXCEPT !.Clients = l.Clients \cup {id},
                            !.expired = FALSE,
                            !.Game = AddPlayer(l.Game, id).game]
    IN  [lobby |-> BroadcastLobbyInfo(joined), client |-> sent.client,
         panic |-> sent.panic]

\* the body of Lobby.handleRegister, l.mu held: the hub, the connection and
\* whether the process panicked
HandleRegister(l, cl, id) ==
    IF Cardinality(l.Clients) >= MaxPlayersPerLobby
    THEN LET sent == SendMessage(cl, ErrorMsg)
             shut == ClientClose(sent.client)
         IN  [lobby |-> l, client |-> shut.client, panic |-> sent.panic \/ shut.panic]
    ELSE LET sent == SendMessage(cl, ConnectedMsg(id))
             joined == [l EXCEPT !.Clients = l.Clients \cup {id},
                                 !.expired = FALSE,
                                 !.Game = AddPlayer(l.Game, id).game]
         IN  [lobby |-> BroadcastLobbyInfo(joined), client |-> sent.client,
              panic |-> sent.panic]

HandleUnregisterKeepsTank(l, cl, id) ==
    IF id \in l.Clients
    THEN [lobby |-> [l EXCEPT !.Clients = l.Clients \ {id}, !.expired = FALSE],
          client |-> [cl EXCEPT !.sendClosed = TRUE],
          panic |-> cl.sendClosed]
    ELSE [lobby |-> l, client |-> cl, panic |-> FALSE]

\* the body of Lobby.handleUnregister up to the test of len(l.Clients)
HandleUnregister(l, cl, id) ==
    IF id \in l.Clients
    THEN [lobby |-> [l EXCEPT !.Clients = l.Clients \ {id},
                              !.Game = RemovePlayer(l.Game, id),
                              !.expired = FALSE],
          client |-> [cl EXCEPT !.sendClosed = TRUE],
          panic |-> cl.sendClosed]
    ELSE [lobby |-> l, client |-> cl, panic |-> FALSE]

\* the body of Lobby.Close, l.mu held
CloseLobby(l) ==
    IF l.closed THEN l
    ELSE [l EXCEPT !.closed = TRUE, !.Game = [Stop(l.Game) EXCEPT !.stopCalled = TRUE]]


FanOutFirst(cls, members, msg) ==
    [k \in DOMAIN cls |->
        IF k \in members /\ ~cls[k].sendClosed /\ Len(cls[k].Send) < SendCap
        THEN [cls[k] EXCEPT !.Send = <<msg>> \o cls[k].Send]
        ELSE cls[k]]

\* the body of Lobby.handleBroadcast: a non-blocking send to every connection
FanOut(cls, members, msg) ==
    [k \in DOMAIN cls |->
        IF k \in members /\ ~cls[k].sendClosed /\ Len(cls[k].Send) < SendCap
        THEN [cls[k] EXCEPT !.Send = Append(cls[k].Send, msg)]
        ELSE cls[k]]

\* Close's loop over the connections: close(done) of each
CloseAll(cls, members) ==
    [k \in DOMAIN cls |-> IF k \in members THEN ClientClose(cls[k]).client ELSE cls[k]]

Alive == ~lm.crashed

Crash(panic) == [lm EXCEPT !.crashed = panic]

----------------------------------------------------------------------------
(* Requests to the registry *)

\* POST /api/create-lobby arrives; generateLobbyCode has a code of S left to
\* return, and fewer than max requests have been made
CreateCallWithin(S, max) ==
    /\ Alive
    /\ tasks.create.pc = "idle"
    /\ tasks.calls < max
    /\ S \ DOMAIN lobbies # {}
    /\ tasks' = [tasks EXCEPT !.create.pc = "lm_lock", !.calls = tasks.calls + 1]
    /\ UNCHANGED <<gameVars, lm, lobbies, clients>>

CreateCall == CreateCallWithin(Codes, MaxCalls)

CreateLobbyNoCapIn(S) ==
    /\ Alive
    /\ tasks.create.pc = "lm_lock"
    /\ CanLock(lm.mu)
    /\ \E code \in S \ DOMAIN lobbies :
         /\ lobbies' = [c \in DOMAIN lobbies \cup {code} |->
                           IF c = code THEN NewLobby(code) ELSE lobbies[c]]
         /\ lm' = [lm EXCEPT !.lobbies = lm.lobbies \cup {code}]
         /\ tasks' = [tasks EXCEPT !.create = [pc |-> "idle", err |-> ""]]
    /\ UNCHANGED <<gameVars, clients>>

\* LobbyManager.CreateLobby, lm.mu taken, generateLobbyCode returning codes
\* of S: go lobby.Run() included; err is the error returned
CreateLobbyIn(S) ==
    /\ Alive
    /\ tasks.create.pc = "lm_lock"
    /\ CanLock(lm.mu)
    /\ IF Cardinality(lm.lobbies) >= MaxLobbies
       THEN /\ tasks' = [tasks EXCEPT !.create = [pc |-> "idle", err |-> "full"]]
            /\ UNCHANGED <<lm, lobbies>>
       ELSE \E code \in S \ DOMAIN lobbies :
              /\ lobbies' = [c \in DOMAIN lobbies \cup {code} |->
                                IF c = code THEN NewLobby(code) ELSE lobbies[c]]
              /\ lm' = [lm EXCEPT !.lobbies = lm.lobbies \cup {code}]
              /\ tasks' = [tasks EXCEPT !.create = [pc |-> "idle", err |-> ""]]
    /\ UNCHANGED <<gameVars, clients>>

CreateLobby == CreateLobbyIn(Codes)

\* GET /ws?lobby=code arrives
ConnectCall(code) ==
    /\ Alive
    /\ tasks.connect.pc = "idle"
    /\ tasks.calls < MaxCalls
    /\ Cardinality(DOMAIN clients) < NumIds
    /\ tasks' = [tasks EXCEPT !.connect = [pc |-> "lm_rlock", code |-> code, client |-> 0],
                              !.calls = tasks.calls + 1]
    /\ UNCHANGED <<gameVars, lm, lobbies, clients>>

\* HandleWebSocket from GetLobby to NewClient
ConnectLookup ==
    /\ Alive
    /\ tasks.connect.pc = "lm_rlock"
    /\ CanRLock(lm.mu)
    /\ IF tasks.connect.code \in lm.lobbies
       THEN LET id == Cardinality(DOMAIN clients) + 1
            IN  /\ clients' = [k \in DOMAIN clients \cup {id} |->
                                  IF k = id THEN NewClient(tasks.connect.code)
                                  ELSE clients[k]]
                /\ tasks' = [tasks EXCEPT !.connect.pc = "register", !.connect.client = id]
       ELSE /\ tasks' = [tasks EXCEPT !.connect.pc = "idle"]
            /\ UNCHANGED clients
    /\ UNCHANGED <<gameVars, lm, lobbies>>

\* GET /api/lobbies arrives
ListCall ==
    /\ Alive
    /\ tasks.list.pc = "idle"
    /\ tasks.calls < MaxCalls
    /\ tasks' = [tasks EXCEPT !.list.pc = "lm_rlock", !.calls = tasks.calls + 1]
    /\ UNCHANGED <<gameVars, lm, lobbies, clients>>

\* HandleListLobbies: lm.mu.RLock()
ListLock ==
    /\ Alive
    /\ tasks.list.pc = "lm_rlock"
    /\ CanRLock(lm.mu)
    /\ lm' = [lm EXCEPT !.mu.r = lm.mu.r \cup {ListThread}]
    /\ tasks' = [tasks EXCEPT !.list = [pc |-> "range", todo |-> lm.lobbies, cur |-> 0]]
    /\ UNCHANGED <<gameVars, lobbies, clients>>

\* the range loop of HandleListLobbies, and its deferred RUnlock
ListNext ==
    /\ Alive
    /\ tasks.list.pc = "range"
    /\ IF tasks.list.todo = {}
       THEN /\ lm' = [lm EXCEPT !.mu.r = lm.mu.r \ {ListThread}]
            /\ tasks' = [tasks EXCEPT !.list.pc = "idle"]
       ELSE /\ \E c \in tasks.list.todo :
                 tasks' = [tasks EXCEPT !.list = [pc |-> "count_lock",
                                                  todo |-> tasks.list.todo \ {c},
                                                  cur |-> c]]
            /\ UNCHANGED lm
    /\ UNCHANGED <<gameVars, lobbies, clients>>

\* Lobby.GetPlayerCount
ListCount ==
    /\ Alive
    /\ tasks.list.pc = "count_lock"
    /\ CanRLock(lobbies[tasks.list.cur].mu)
    /\ tasks' = [tasks EXCEPT !.list.pc = "range"]
    /\ UNCHANGED <<gameVars, lm, lobbies, clients>>

----------------------------------------------------------------------------
(* The idle sweep *)

\* LobbyTimeout passes without a register or unregister in hub c
Expire(c) ==
    /\ Alive
    /\ c \in DOMAIN lobbies
    /\ ~lobbies[c].expired
    /\ lobbies[c].pc \in {"select", "exited"}
    /\ lobbies' = [lobbies EXCEPT ![c].expired = TRUE]
    /\ UNCHANGED <<gameVars, lm, clients, tasks>>

\* CleanupRoutine's ticker fires; fewer than max requests have been made
SweepCallWithin(max) ==
    /\ Alive
    /\ tasks.sweep.pc = "idle"
    /\ tasks.calls < max
    /\ tasks' = [tasks EXCEPT !.sweep.pc = "lm_lock", !.calls = tasks.calls + 1]
    /\ UNCHANGED <<gameVars, lm, lobbies, clients>>

SweepCall == SweepCallWithin(MaxCalls)

\* cleanupInactiveLobbies: lm.mu.Lock()
SweepLock ==
    /\ Alive
    /\ tasks.sweep.pc = "lm_lock"
    /\ CanLock(lm.mu)
    /\ lm' = [lm EXCEPT !.mu.w = SweepThread]
    /\ tasks' = [tasks EXCEPT !.sweep = [pc |-> "range", todo |-> lm.lobbies, cur |-> 0]]
    /\ UNCHANGED <<gameVars, lobbies, clients>>

\* the range loop of cleanupInactiveLobbies, and its deferred Unlock
SweepNext ==
    /\ Alive
    /\ tasks.sweep.pc = "range"
    /\ IF tasks.sweep.todo = {}
       THEN /\ lm' = [lm EXCEPT !.mu.w = NoThread]
            /\ tasks' = [tasks EXCEPT !.sweep.pc = "idle"]
       ELSE /\ \E c \in tasks.sweep.todo :
                 tasks' = [tasks EXCEPT !.sweep = [pc |-> "activity_lock",
                                                   todo |-> tasks.sweep.todo \ {c},
                                                   cur |-> c]]
            /\ UNCHANGED lm
    /\ UNCHANGED <<gameVars, lobbies, clients>>

\* lobby.LastActivity() and the comparison with LobbyTimeout
SweepActivity ==
    /\ Alive
    /\ tasks.sweep.pc = "activity_lock"
    /\ CanRLock(lobbies[tasks.sweep.cur].mu)
    /\ tasks' = [tasks EXCEPT !.sweep.pc =
                    IF lobbies[tasks.sweep.cur].expired THEN "close_lock" ELSE "range"]
    /\ UNCHANGED <<gameVars, lm, lobbies, clients>>

\* the hub a thread is about to Close, if it is at Close's l.mu.Lock()
ClosingThreads ==
    { HubThread(c) : c \in { d \in DOMAIN lobbies : lobbies[d].pc = "close_lock" } }
    \cup (IF tasks.sweep.pc = "close_lock" THEN {SweepThread} ELSE {})

CloseTarget(t) == IF t = SweepThread THEN tasks.sweep.cur ELSE t[2]

\* lobby.Close() and delete(lm.lobbies, code), by the sweep or by RemoveLobby
\* called from the hub's handleUnregister: from Close's l.mu.Lock() to the
\* caller's next lock operation
LockedClose(t) ==
    /\ Alive
    /\ t \in ClosingThreads
    /\ LET c == CloseTarget(t)
           l == lobbies[c]
           members == IF l.closed THEN {} ELSE l.Clients
           panic == \E k \in members : clients[k].done
           shut == CloseLobby(l)
       IN  /\ CanLock(l.mu)
           /\ clients' = CloseAll(clients, members)
           /\ IF t = SweepThread
              THEN /\ lobbies' = [lobbies EXCEPT ![c] = shut]
                   /\ lm' = [Crash(panic) EXCEPT !.lobbies = lm.lobbies \ {c}]
                   /\ tasks' = [tasks EXCEPT !.sweep.pc = "range"]
              ELSE /\ lobbies' = [lobbies EXCEPT ![c] = [shut EXCEPT !.pc = "check",
                                                                     !.mu = Unlocked]]
                   /\ lm' = [Crash(panic) EXCEPT !.lobbies = lm.lobbies \ {c},
                                                 !.mu.w = NoThread]
                   /\ UNCHANGED tasks
    /\ UNCHANGED gameVars

----------------------------------------------------------------------------
(* The hub's loop, Lobby.Run *)

\* case client := <-l.Register: the connect request's send is received, and
\* HandleWebSocket goes on to start the two pumps
HubRecvRegister(c) ==
    /\ Alive
    /\ c \in DOMAIN lobbies
    /\ lobbies[c].pc = "select"
    /\ tasks.connect.pc = "register"
    /\ tasks.connect.code = c
    /\ lobbies' = [lobbies EXCEPT ![c].pc = "reg_lock", ![c].cur = tasks.connect.client]
    /\ clients' = [clients EXCEPT ![tasks.connect.client].read = "reading",
                                  ![tasks.connect.client].write = "running"]
    /\ tasks' = [tasks EXCEPT !.connect.pc = "idle"]
    /\ UNCHANGED <<gameVars, lm>>

\* handleRegister
HubRegister(c) ==
    /\ Alive
    /\ c \in DOMAIN lobbies
    /\ lobbies[c].pc = "reg_lock"
    /\ CanLock(lobbies[c].mu)
    /\ LET id == lobbies[c].cur
           r == HandleRegister(lobbies[c], clients[id], id)
       IN  /\ lobbies' = [lobbies EXCEPT ![c] = [r.lobby EXCEPT !.pc = "check"]]
           /\ clients' = [clients EXCEPT ![id] = r.client]
           /\ lm' = Crash(r.panic)
    /\ UNCHANGED <<gameVars, tasks>>

\* case client := <-l.Unregister: ReadPump's deferred send is received, and
\* ReadPump goes on to close the transport
HubRecvUnregister(c, k) ==
    /\ Alive
    /\ c \in DOMAIN lobbies
    /\ lobbies[c].pc = "select"
    /\ k \in DOMAIN clients
    /\ clients[k].Lobby = c
    /\ clients[k].read = "unregister"
    /\ lobbies' = [lobbies EXCEPT ![c].pc = "unreg_lock", ![c].cur = k]
    /\ clients' = [clients EXCEPT ![k].read = "done", ![k].connClosed = TRUE]
    /\ UNCHANGED <<gameVars, lm, tasks>>

\* handleUnregister up to its call of RemoveLobby, or to its end
HubUnregister(c) ==
    /\ Alive
    /\ c \in DOMAIN lobbies
    /\ lobbies[c].pc = "unreg_lock"
    /\ CanLock(lobbies[c].mu)
    /\ LET id == lobbies[c].cur
           r == HandleUnregister(lobbies[c], clients[id], id)
       IN  /\ clients' = [clients EXCEPT ![id] = r.client]
           /\ lm' = Crash(r.panic)
           /\ lobbies' = [lobbies EXCEPT ![c] =
                 IF id \notin lobbies[c].Clients
                 THEN [r.lobby EXCEPT !.pc = "check"]
                 ELSE IF r.lobby.Clients = {}
                 THEN [r.lobby EXCEPT !.closed = TRUE, !.mu.w = HubThread(c),
                                      !.pc = "remove_lock"]
                 ELSE [BroadcastLobbyInfo(r.lobby) EXCEPT !.pc = "check"]]
    /\ UNCHANGED <<gameVars, tasks>>

\* RemoveLobby called from handleUnregister: lm.mu.Lock() and the lookup
HubRemoveLock(c) ==
    /\ Alive
    /\ c \in DOMAIN lobbies
    /\ lobbies[c].pc = "remove_lock"
    /\ CanLock(lm.mu)
    /\ IF c \in lm.lobbies
       THEN /\ lm' = [lm EXCEPT !.mu.w = HubThread(c)]
            /\ lobbies' = [lobbies EXCEPT ![c].pc = "close_lock"]
       ELSE /\ lobbies' = [lobbies EXCEPT ![c].pc = "check", ![c].mu = Unlocked]
            /\ UNCHANGED lm
    /\ UNCHANGED <<gameVars, clients, tasks>>

\* case message := <-l.Broadcast
HubRecvBroadcast(c) ==
    /\ Alive
    /\ c \in DOMAIN lobbies
    /\ lobbies[c].pc = "select"
    /\ lobbies[c].Broadcast # <<>>
    /\ lobbies' = [lobbies EXCEPT ![c].pc = "bcast_lock",
                                  ![c].msg = << Head(lobbies[c].Broadcast) >>,
                                  ![c].Broadcast = Tail(lobbies[c].Broadcast)]
    /\ UNCHANGED <<gameVars, lm, clients, tasks>>

\* handleBroadcast
HubBroadcast(c) ==
    /\ Alive
    /\ c \in DOMAIN lobbies
    /\ lobbies[c].pc = "bcast_lock"
    /\ CanRLock(lobbies[c].mu)
    /\ clients' = FanOut(clients, lobbies[c].Clients, lobbies[c].msg[1])
    /\ lobbies' = [lobbies EXCEPT ![c].pc = "check", ![c].msg = <<>>]
    /\ UNCHANGED <<gameVars, lm, tasks>>

\* the test of l.closed that ends each round of Run
HubCheck(c) ==
    /\ Alive
    /\ c \in DOMAIN lobbies
    /\ lobbies[c].pc = "check"
    /\ CanRLock(lobbies[c].mu)
    /\ lobbies' = [lobbies EXCEPT ![c].pc = IF lobbies[c].closed THEN "exited" ELSE "select"]
    /\ UNCHANGED <<gameVars, lm, clients, tasks>>

----------------------------------------------------------------------------
(* The pumps of a connection, Client.ReadPump and Client.WritePump *)

\* ReadMessage fails (the peer went away, the deadline passed, or the
\* transport was closed): ReadPump leaves its loop for the deferred send
ReadFails(k) ==
    /\ Alive
    /\ k \in DOMAIN clients
    /\ clients[k].read = "reading"
    /\ clients' = [clients EXCEPT ![k].read = "unregister"]
    /\ UNCHANGED <<gameVars, lm, lobbies, tasks>>

\* case message, ok := <-c.Send with a message: it is written together with
\* everything else queued
WriteMessages(k) ==
    /\ Alive
    /\ k \in DOMAIN clients
    /\ clients[k].write = "running"
    /\ clients[k].Send # <<>>
    /\ clients' = [clients EXCEPT ![k].Send = <<>>]
    /\ UNCHANGED <<gameVars, lm, lobbies, tasks>>

\* case <-c.Send on the closed, drained queue, or case <-c.done: WritePump
\* returns and closes the transport
WriteStops(k) ==
    /\ Alive
    /\ k \in DOMAIN clients
    /\ clients[k].write = "running"
    /\ \/ clients[k].Send = <<>> /\ clients[k].sendClosed
       \/ clients[k].done
    /\ clients' = [clients EXCEPT ![k].write = "done", ![k].connClosed = TRUE]
    /\ UNCHANGED <<gameVars, lm, lobbies, tasks>>

NextNet ==
    \/ CreateCall
    \/ CreateLobby
    \/ \E code \in Codes : ConnectCall(code)
    \/ ConnectLookup
    \/ ListCall
    \/ ListLock
    \/ ListNext
    \/ ListCount
    \/ \E c \in Codes : Expire(c)
    \/ SweepCall
    \/ SweepLock
    \/ SweepNext
    \/ SweepActivity
    \/ \E t \in ClosingThreads : LockedClose(t)
    \/ \E c \in Codes : HubRecvRegister(c)
    \/ \E c \in Codes : HubRegister(c)
    \/ \E c \in Codes, k \in PlayerIds : HubRecvUnregister(c, k)
    \/ \E c \in Codes : HubUnregister(c)
    \/ \E c \in Codes : HubRemoveLock(c)
    \/ \E c \in Codes : HubRecvBroadcast(c)
    \/ \E c \in Codes : HubBroadcast(c)
    \/ \E c \in Codes : HubCheck(c)
    \/ \E k \in PlayerIds : ReadFails(k)
    \/ \E k \in PlayerIds : WriteMessages(k)
    \/ \E k \in PlayerIds : WriteStops(k)

InitRegistry == InitGame /\ InitNet

SpecNet == InitRegistry /\ [][NextNet]_vars

----------------------------------------------------------------------------
(* The registry filled to its cap: sessions are created and, once idle,    *)
(* swept; nobody connects.                                                 *)

NumCapCodes == 6     \* session codes generateLobbyCode can return
MaxCapCalls == 8     \* requests the registry receives in one behaviour

CapCodes == 1 .. NumCapCodes

\* the code generateLobbyCode returns next: the codes come in increasing order
NextCodes ==
    IF CapCodes \ DOMAIN lobbies = {} THEN {}
    ELSE { CHOOSE c \in CapCodes \ DOMAIN lobbies :
             \A d \in CapCodes \ DOMAIN lobbies : c <= d }

NextCap ==
    \/ CreateCallWithin(NextCodes, MaxCapCalls)
    \/ CreateLobbyIn(NextCodes)
    \/ \E c \in CapCodes : Expire(c)
    \/ SweepCallWithin(MaxCapCalls)
    \/ SweepLock
    \/ SweepNext
    \/ SweepActivity
    \/ \E t \in ClosingThreads : LockedClose(t)

SpecCap == InitRegistry /\ [][NextCap]_vars

----------------------------------------------------------------------------
(* Properties of the registry and the hubs *)

Threads ==
    { HubThread(c) : c \in DOMAIN lobbies }
    \cup {SweepThread, CreateThread, ListThread, ConnectThread}

\* the threads holding a mutex in a way that keeps a Lock (write = TRUE) or
\* an RLock (write = FALSE) from returning
Holders(mu, write) ==
    (IF mu.w = NoThread THEN {} ELSE {mu.w}) \cup (IF write THEN mu.r ELSE {})

\* the threads that must release a lock before thread t can take its next step
Blockers(t) ==
    IF t = SweepThread
    THEN CASE tasks.sweep.pc = "lm_lock" -> Holders(lm.mu, TRUE)
           [] tasks.sweep.pc = "activity_lock" -> Holders(lobbies[tasks.sweep.cur].mu, FALSE)
           [] tasks.sweep.pc = "close_lock" -> Holders(lobbies[tasks.sweep.cur].mu, TRUE)
           [] OTHER -> {}
    ELSE IF t = CreateThread
    THEN IF tasks.create.pc = "lm_lock" THEN Holders(lm.mu, TRUE) ELSE {}
    ELSE IF t = ListThread
    THEN CASE tasks.list.pc = "lm_rlock" -> Holders(lm.mu, FALSE)
           [] tasks.list.pc = "count_lock" -> Holders(lobbies[tasks.list.cur].mu, FALSE)
           [] OTHER -> {}
    ELSE IF t = ConnectThread
    THEN IF tasks.connect.pc = "lm_rlock" THEN Holders(lm.mu, FALSE) ELSE {}
    ELSE LET l == lobbies[t[2]]
         IN  CASE l.pc \in {"reg_lock", "unreg_lock", "close_lock"} -> Holders(l.mu, TRUE)
               [] l.pc \in {"bcast_lock", "check"} -> Holders(l.mu, FALSE)
               [] l.pc = "remove_lock" -> Holders(lm.mu, TRUE)
               [] OTHER -> {}

\* the threads of D that wait for a thread of D
RECURSIVE Knot(_, _)
Knot(D, n) ==
    IF n = 0 THEN D
    ELSE Knot({ t \in D : Blockers(t) \cap D # {} }, n - 1)

\* the threads that wait for a lock that will never be released: each waits
\* for a thread of the same set
WaitsForever == Knot(Threads, NumCodes + 4)

\* C1: when an unregister removes the last connection of a hub, the handler
\* runs to completion: it never reaches a lock operation it cannot return
\* from, so the hub leaves the registry
C1_LastUnregisterCompletes ==
    \A c \in DOMAIN lobbies :
        lobbies[c].pc \in {"remove_lock", "close_lock"} => HubThread(c) \notin WaitsForever

\* C2: no task waits forever on the registry lock or on a hub lock
C2_NoTaskWaitsForever ==
    WaitsForever \cap {SweepThread, CreateThread, ListThread, ConnectThread} = {}

----------------------------------------------------------------------------
(* Properties of the match simulation *)

\* a step in which AddPlayer was called
JoinStep == usedIds' # usedIds

\* a step in which RemovePlayer took a tank away
LeaveStep == DOMAIN g'.Tanks # DOMAIN g.Tanks /\ DOMAIN g'.Tanks \subseteq DOMAIN g.Tanks

\* C3: the match never holds more than 2 tanks, and a join attempted while
\* two tanks are present returns not-joined and changes nothing of the match.
C3_AtMostTwoTanks ==
    /\ [](NumTanks(g) <= 2)
    /\ [][(JoinStep /\ NumTanks(g) >= 2) => (~lastJoin'.ok /\ g' = g)]_vars

C3_Witness == lastJoin.id # NoWinner /\ ~lastJoin.ok /\ NumTanks(g) = 2

\* C4 as claimed: Waiting iff fewer than 2 tanks, Playing iff exactly 2 tanks
\* and no GameOver.
C4_WaitingIffFewerThanTwo ==
    /\ (g.State = StateWaiting) <=> (NumTanks(g) < 2)
    /\ (g.State = StatePlaying) <=> (NumTanks(g) = 2 /\ g.State # StateGameOver)

\* C4 amended: the tank count decides the state only until GameOver: the
\* state is Waiting iff there are fewer than 2 tanks and the match is not
\* over, Playing iff there are exactly 2 tanks and the match is not over.
C4_StateMatchesTankCount ==
    /\ (g.State = StateWaiting) <=> (NumTanks(g) < 2 /\ g.State # StateGameOver)
    /\ (g.State = StatePlaying) <=> (NumTanks(g) = 2 /\ g.State # StateGameOver)

C4_Witness == g.State = StateGameOver /\ NumTanks(g) = 1 /\ g.WinnerID \in DOMAIN g.Tanks

\* C5: the match state only moves forward: a match in GameOver stays in
\* GameOver, and a match that has left Waiting never returns to it.
C5_ForwardOnly ==
    [][/\ (g.State = StateGameOver => g'.State = StateGameOver)
       /\ (g.State # StateWaiting => g'.State # StateWaiting)]_vars

\* a match that was over by a kill, after which a player left and another joined
C5_Witness ==
    /\ g.State = StateGameOver
    /\ NumTanks(g) = 2
    /\ \E id \in DOMAIN g.Tanks : ~IsAlive(g.Tanks[id])
    /\ 3 \in DOMAIN g.Tanks

\* C6: the Waiting-to-Playing transition happens when the second player joins
\* and starts the only tick loop the match ever has: there is no loop while
\* Waiting and exactly one ever after.
C6_OneLoop ==
    /\ [](Len(g.loops) = IF g.State = StateWaiting THEN 0 ELSE 1)
    /\ [][(g.State = StateWaiting /\ g'.State # StateWaiting)
             => (JoinStep /\ NumTanks(g') = 2 /\ g'.State = StatePlaying)]_vars
    /\ [][(JoinStep /\ g.State = StateWaiting /\ NumTanks(g') = 2)
             => g'.State = StatePlaying]_vars

\* two tanks are present again after the match ended
C6_Witness ==
    /\ g.State = StateGameOver
    /\ NumTanks(g) = 2
    /\ lastJoin.ok
    /\ lastJoin.id = 3

\* C7 as claimed: the first tank of an empty session is at the left point,
\* and no two tanks present were given the same spawn point.
C7_SpawnPointsDistinct ==
    /\ \A p \in DOMAIN g.Tanks : p \in DOMAIN spawnOf
    /\ (NumTanks(g) = 1 /\ g.State = StateWaiting)
          => \A p \in DOMAIN g.Tanks : spawnOf[p] = 1
    /\ \A p, q \in DOMAIN g.Tanks : p # q => spawnOf[p] # spawnOf[q]

\* C8: a leave while Playing that leaves one tank ends the match with that
\* tank as the winner; any other leave changes neither state nor winner.
C8_LeaveDecidesWinner ==
    [][LeaveStep =>
         IF g.State = StatePlaying /\ NumTanks(g') = 1
         THEN g'.State = StateGameOver /\ g'.WinnerID \in DOMAIN g'.Tanks
         ELSE g'.State = g.State /\ g'.WinnerID = g.WinnerID]_vars

\* the match ended by a leave: nobody was hit, one tank is left and has won
C8_Witness ==
    /\ g.State = StateGameOver
    /\ DOMAIN g.Tanks = {g.WinnerID}
    /\ IsAlive(g.Tanks[g.WinnerID])

CannonShots(game, id, t) ==
    { i \in DOMAIN game.Bullets :
        /\ game.Bullets[i].Type = BulletNormal
        /\ game.Bullets[i].OwnerID = id
        /\ game.Bullets[i].CreatedAt = t }

\* C10: a cannon fires only when the cooldown has elapsed since its last
\* fire, then sets its last-fired time to the present; a step adds at most one
\* cannon bullet per player, and only by such a fire; so two cannon bullets of
\* one player are never less than a cooldown apart.
C10_CannonCooldown ==
    /\ [](\A i, j \in DOMAIN g.Bullets :
             (/\ i # j
              /\ g.Bullets[i].Type = BulletNormal
              /\ g.Bullets[j].Type = BulletNormal
              /\ g.Bullets[i].OwnerID = g.Bullets[j].OwnerID)
             => Abs(g.Bullets[i].CreatedAt - g.Bullets[j].CreatedAt) >= CannonCooldown)
    /\ [][\A id \in DOMAIN g.Tanks \cap DOMAIN g'.Tanks :
             LET before == g.Tanks[id].Cannon
                 after == g'.Tanks[id].Cannon
                 added == Cardinality(CannonShots(g', id, now))
                            - Cardinality(CannonShots(g, id, now))
             IN  /\ after.lastFired # before.lastFired
                      => (now - before.lastFired >= CannonCooldown /\ after.lastFired = now)
                 /\ added <= 1
                 /\ added = 1 => after.lastFired # before.lastFired]_vars

\* a tank that fired one time unit ago has just been through a tick with its
\* fire button held, and its one bullet is the only one it has
C10_Witness ==
    \E id \in DOMAIN g.Tanks :
        /\ g.State = StatePlaying
        /\ g.Tanks[id].ActiveWeapon = WeaponCannon
        /\ g.Tanks[id].Input.Firing
        /\ g.Tanks[id].Cannon.lastFired = now - 1
        /\ g.loops[1].lastUpdate = now
        /\ g.loops[1].pc = "broadcast"
        /\ Cardinality({ i \in DOMAIN g.Bullets : g.Bullets[i].OwnerID = id }) = 1

\* a step of Run that is the update of a tick
TickStep == g.loops[1].pc = "select" /\ g'.loops[1].pc = "broadcast"

\* C11: the ammo of a mortar is always between 0 and its maximum, and over
\* any step it changes by exactly: minus one if the mortar fired in the step
\* (its last-fired time moved, to the present, with the cooldown elapsed and a
\* charge left), plus one if the step is a tick of a match being played in
\* which the time accumulated below the maximum reached a recharge interval.
C11_MortarAmmo ==
    /\ [](\A id \in DOMAIN g.Tanks :
             g.Tanks[id].Mortar.ammo >= 0 /\ g.Tanks[id].Mortar.ammo <= MortarMaxAmmo)
    /\ [][\A id \in DOMAIN g.Tanks \cap DOMAIN g'.Tanks :
             LET m == g.Tanks[id].Mortar
                 m2 == g'.Tanks[id].Mortar
                 fired == m2.lastFired # m.lastFired
                 recharged == /\ TickStep
                              /\ g.State = StatePlaying
                              /\ m.ammo < MortarMaxAmmo
                              /\ m.rechargeTimer + (now - g.loops[1].lastUpdate)
                                    >= MortarRecharge
             IN  /\ m2.ammo = m.ammo - (IF fired THEN 1 ELSE 0)
                                     + (IF recharged THEN 1 ELSE 0)
                 /\ fired => /\ m2.lastFired = now
                             /\ now - m.lastFired >= MortarCooldown
                             /\ m.ammo + (IF recharged THEN 1 ELSE 0) > 0]_vars

\* the tick in which an empty mortar got a charge back and, the fire button
\* being held, fired it at once
C11_Witness ==
    /\ g.State = StatePlaying
    /\ g.loops[1].pc = "broadcast"
    /\ g.loops[1].lastUpdate = now
    /\ now > 0
    /\ g.Tanks[1].Input.Firing
    /\ g.Tanks[1].Mortar.ammo = 0
    /\ g.Tanks[1].Mortar.rechargeTimer = 0
    /\ g.Tanks[1].Mortar.lastFired = now

\* a step of Run that received a command and processed it; the command is
\* then g'.loops[1].input
InputStep == g'.loops[1].handled = g.loops[1].handled + 1

\* C12: when Run processes a fire command of a player whose active weapon is
\* the mortar and the mortar has no ammo or its cooldown has not elapsed, the
\* tanks (ammo and last-fired time included), the bullets, the bullet id
\* counter, the match state and the winner are all unchanged.
C12_MortarFireNoOp ==
    [][(/\ InputStep
        /\ g'.loops[1].input.Action = "fire"
        /\ g'.loops[1].input.PlayerID \in DOMAIN g.Tanks
        /\ LET tank == g.Tanks[g'.loops[1].input.PlayerID]
           IN  /\ tank.ActiveWeapon = WeaponMortar
               /\ \/ tank.Mortar.ammo = 0
                  \/ now - tank.Mortar.lastFired < MortarCooldown)
       => /\ g'.Tanks = g.Tanks
          /\ g'.Bullets = g.Bullets
          /\ idCounter' = idCounter
          /\ g'.State = g.State
          /\ g'.WinnerID = g.WinnerID]_vars

\* the one command sent was a fire command, processed while the mortar of
\* player 1 was empty; the cooldown has elapsed by now
C12_Witness ==
    /\ submitted = 1
    /\ g.InputChan = <<>>
    /\ g.loops[1].handled = 1
    /\ g.loops[1].input = FireCmd(1)
    /\ g.Tanks[1].ActiveWeapon = WeaponMortar
    /\ g.Tanks[1].Mortar.ammo = 0
    /\ now - g.Tanks[1].Mortar.lastFired >= MortarCooldown

\* the mortar bullets of a game
MortarBullets(game) ==
    { game.Bullets[i] : i \in { j \in DOMAIN game.Bullets :
                                  game.Bullets[j].Type = BulletMortar } }

\* the explosion of a mortar bullet as the collision check sees it
Exploding(b) ==
    BulletIsActive(b) /\ BulletGetHitbox(b) = Circle(b.ImpactPos, b.ImpactRadius)

\* C13 as stated: no mortar bullet is collision-active before its impact
\* time, and after the collision check of a tick made at or after the impact
\* time of a mortar bullet, the bullet, if the check left it in place, is
\* collision-active with the explosion radius as its hit radius.
C13_ActiveAtOrAfterImpact ==
    /\ [](\A b \in MortarBullets(g) : BulletIsActive(b) => now >= b.ImpactTime)
    /\ [][(TickStep /\ g.State = StatePlaying)
             => \A b \in MortarBullets(g') : now >= b.ImpactTime => Exploding(b)]_vars

\* C13, amended: no mortar bullet is collision-active before or at its
\* impact time; after the collision check of a tick, a mortar bullet the check
\* left in place is collision-active exactly if the tick was made strictly
\* after its impact time, and then its hitbox is the explosion radius around
\* the impact position.
C13_ActiveAfterImpact ==
    /\ [](\A b \in MortarBullets(g) : BulletIsActive(b) => now > b.ImpactTime)
    /\ [][(TickStep /\ g.State = StatePlaying)
             => \A b \in MortarBullets(g') :
                    /\ BulletIsActive(b) <=> now > b.ImpactTime
                    /\ now > b.ImpactTime => Exploding(b)]_vars

\* a tick made after the impact time of a shell that hit nobody: the shell
\* lies exploded at its impact position
C13_Witness ==
    /\ g.State = StatePlaying
    /\ g.loops[1].pc = "broadcast"
    /\ g.loops[1].lastUpdate = now
    /\ \E b \in MortarBullets(g) :
         /\ b.CreatedAt >= 0
         /\ now > b.ImpactTime
         /\ Exploding(b)
         /\ b.Position = b.ImpactPos

\* the bullets of the game that are collision-active and overlap tank id
Touching(game, id) ==
    { i \in DOMAIN game.Bullets :
        /\ BulletIsActive(game.Bullets[i])
        /\ CircleIntersects(BulletGetHitbox(game.Bullets[i]),
                            TankGetHitbox(game.Tanks[id])) }

\* C14: over a collision check, a tank that only cannon bullets of its own
\* overlap keeps its health; a tank alone in the explosion radius of a mortar
\* shell, its owner or not, loses health; every bullet that damaged a tank is
\* removed, and no other.
C14_SelfHitExemption ==
    [][\A id \in DOMAIN g.Tanks :
          LET hits == Touching(g, id)
              own == { i \in hits : /\ g.Bullets[i].Type = BulletNormal
                                    /\ g.Bullets[i].OwnerID = id }
              blasts == { i \in hits :
                            /\ g.Bullets[i].Type = BulletMortar
                            /\ \A other \in DOMAIN g.Tanks \ {id} : i \notin Touching(g, other) }
              spent == { i \in DOMAIN g.Bullets :
                           \E t \in DOMAIN g.Tanks :
                              /\ i \in Touching(g, t)
                              /\ ~(g.Bullets[i].Type = BulletNormal /\ g.Bullets[i].OwnerID = t) }
          IN  /\ hits \subseteq own => g'.Tanks[id].Health = g.Tanks[id].Health
              /\ blasts # {} => g'.Tanks[id].Health < g.Tanks[id].Health
              /\ g'.Bullets = RemoveHit(g.Bullets, spent, 1)]_vars

\* after a check: a cannon bullet of player 1 lies on tank 1, which is
\* unharmed, and tank 2 was destroyed
C14_Witness ==
    /\ g.loops[1].pc = "broadcast"
    /\ \E i \in Touching(g, 1) :
         g.Bullets[i].Type = BulletNormal /\ g.Bullets[i].OwnerID = 1
    /\ g.Tanks[1].Health = g.Tanks[1].MaxHealth
    /\ g.Tanks[2].Health = 0
    /\ g.WinnerID = 1

\* C15: GetState returns the same data before and after a step of Run that
\* is not the update of a tick: the reception and processing of a player
\* command between two ticks leaves the snapshot as it was.
C15_SnapshotIdempotent ==
    [][(g.loops # <<>> /\ g'.loops # <<>> /\ InputStep)
          => GetState(g', now') = GetState(g, now)]_vars

\* a step in which CreateLobby runs, from its Lock to its return
CreateStep == tasks.create.pc = "lm_lock" /\ tasks'.create.pc = "idle"

\* C16: the registry never holds more than MaxLobbies hubs; a CreateLobby
\* made when it holds MaxLobbies returns the capacity error and leaves the
\* registry map and every hub as they were; any other CreateLobby returns no
\* error and stores a new hub under a code that was not in the map, leaving
\* the hubs already there as they were.
C16_RegistryCap ==
    /\ [](Cardinality(lm.lobbies) <= MaxLobbies)
    /\ [][CreateStep =>
            IF Cardinality(lm.lobbies) >= MaxLobbies
            THEN /\ tasks'.create.err = "full"
                 /\ lm' = lm
                 /\ lobbies' = lobbies
            ELSE /\ tasks'.create.err = ""
                 /\ \E code \in DOMAIN lobbies' :
                      /\ code \notin lm.lobbies
                      /\ lm' = [lm EXCEPT !.lobbies = lm.lobbies \cup {code}]
                      /\ lobbies'[code] = NewLobby(code)
                      /\ \A c \in lm.lobbies : lobbies'[c] = lobbies[c]]_vars

\* a request was refused with the capacity error and the registry still
\* holds its five hubs
C16_Witness ==
    /\ tasks.create.pc = "idle"
    /\ tasks.create.err = "full"
    /\ Cardinality(lm.lobbies) = MaxLobbies
    /\ \A c \in lm.lobbies : ~lobbies[c].closed

\* steps in which hub c runs handleRegister / handleUnregister for the
\* connection lobbies[c].cur
RegisterStep(c) == lobbies[c].pc = "reg_lock" /\ lobbies'[c].pc # "reg_lock"

UnregisterStep(c) == lobbies[c].pc = "unreg_lock" /\ lobbies'[c].pc # "unreg_lock"

\* C17: when handleRegister runs for a connection and the hub has two
\* registered connections, the hub's connection registry, its match (tanks
\* and state) and its activity time are unchanged, the connection gets no
\* tank, and its done channel is closed; when handleUnregister runs for a
\* connection that is not registered, the hub and all connections are unchanged.
C17_RegisterAtCapacity ==
    [][\A c \in DOMAIN lobbies :
          LET id == lobbies[c].cur
          IN  /\ (RegisterStep(c) /\ Cardinality(lobbies[c].Clients) >= MaxPlayersPerLobby)
                   => /\ lobbies'[c] = [lobbies[c] EXCEPT !.pc = "check"]
                      /\ id \notin lobbies'[c].Clients
                      /\ id \notin DOMAIN lobbies'[c].Game.Tanks
                      /\ clients'[id].done
                      /\ \A k \in DOMAIN clients \ {id} : clients'[k] = clients[k]
              /\ (UnregisterStep(c) /\ id \notin lobbies[c].Clients)
                   => /\ lobbies'[c] = [lobbies[c] EXCEPT !.pc = "check"]
                      /\ clients' = clients]_vars

\* the hub has just run handleUnregister for a connection it had rejected:
\* two connections are registered, the third is shut down and its outbound
\* queue was never closed by the hub
C17_Witness ==
    \E c \in DOMAIN lobbies :
       /\ lobbies[c].pc = "check"
       /\ Cardinality(lobbies[c].Clients) = MaxPlayersPerLobby
       /\ lobbies[c].cur \in DOMAIN clients
       /\ LET id == lobbies[c].cur
          IN  /\ id \notin lobbies[c].Clients
              /\ id \notin DOMAIN lobbies[c].Game.Tanks
              /\ clients[id].Lobby = c
              /\ clients[id].done
              /\ clients[id].read = "done"
              /\ ~clients[id].sendClosed

\* C18: the outbound pump of a connection never returns while the error
\* frame of a rejection is still in the connection's outbound queue: the
\* frame has been written to the transport by then.
C18_RejectionSurfaced ==
    \A k \in DOMAIN clients :
       clients[k].write = "done" => \A i \in DOMAIN clients[k].Send :
                                       clients[k].Send[i] # ErrorMsg

\* C19: when handleBroadcast passes a message to a registered connection
\* whose outbound queue is full, the connection's done channel is closed
\* afterwards.
C19_CloseOnFull ==
    [][\A c \in DOMAIN lobbies :
          (lobbies[c].pc = "bcast_lock" /\ lobbies'[c].pc # "bcast_lock")
             => \A k \in lobbies[c].Clients :
                   (~clients[k].sendClosed /\ Len(clients[k].Send) >= SendCap)
                      => clients'[k].done]_vars

\* C20: HandleInput always returns (an inbound pump with a command to pass
\* is never made to wait for Run); called when InputChan holds InputChanCap
\* commands it changes nothing of the match, the queue included; called
\* otherwise it appends its command to the queue and changes nothing else.
C20_HandleInputNonBlocking ==
    /\ [](submitted < MaxShots => \A input \in DuelInputs : ENABLED SubmitShot(input))
    /\ [](Len(g.InputChan) <= InputChanCap)
    /\ [][submitted' # submitted =>
            IF Len(g.InputChan) >= InputChanCap
            THEN g' = g
            ELSE \E input \in DuelInputs :
                    g' = [g EXCEPT !.InputChan = Append(g.InputChan, input)]]_vars

\* a command was dropped: of the commands passed to HandleInput, fewer were
\* received by Run or are in the queue, which is full
C20_Witness ==
    /\ Len(g.InputChan) = InputChanCap
    /\ submitted > g.loops[1].handled + Len(g.InputChan)

----------------------------------------------------------------------------
(* Properties of Run's loop: the order of commands and ticks *)

\* C21: when Run takes a tick of a match being played (the ticker case of
\* its select, then update), no command is waiting in InputChan: every
\* command queued when the tick began has been processed before the tanks
\* and bullets are updated.
C21_DrainBeforePhysics ==
    [][(TickStep /\ g.State = StatePlaying) => g.InputChan = <<>>]_vars

\* A match whose command queue holds several commands: both players send
\* commands to a match being played while Run receives them and ticks.
QueueCap == 2        \* capacity given to InputChan here (the source uses 100)
MaxQueued == 3       \* commands the clients send in one behaviour

QueueInputs ==
    { SwitchCmd(1, WeaponMortar), FireCmd(1), FireCmd(2), InputCmd(2, DriveWest) }

InitQueue ==
    /\ g = Started(0).game
    /\ now = 0
    /\ idCounter = 0
    /\ usedIds = {1, 2}
    /\ submitted = 0
    /\ lastJoin = [id |-> 2, ok |-> TRUE]
    /\ spawnOf = [id \in {1, 2} |-> SpawnIndex(Joined.Tanks[id].Position)]
    /\ InitNet

\* an inbound pump forwards a client message: HandleInput
SubmitQueued(input) ==
    /\ submitted < MaxQueued
    /\ submitted' = submitted + 1
    /\ g' = HandleInputWithin(g, input, QueueCap)
    /\ UNCHANGED <<now, idCounter, usedIds, lastJoin, spawnOf, netVars>>

NextQueue ==
    \/ \E input \in QueueInputs : SubmitQueued(input)
    \/ \E i \in DOMAIN g.loops : RunInput(i)
    \/ \E i \in DOMAIN g.loops : RunTick(i)
    \/ \E i \in DOMAIN g.loops : RunBroadcast(i)
    \/ AdvanceTime

SpecQueue == InitQueue /\ [][NextQueue]_vars

\* C22: InputChan is a queue served in arrival order by Run alone.  A step
\* in which Run receives a command takes the command at the front of the
\* queue, removes it (so it is applied once) and applies exactly it to the
\* tanks and bullets; a step in which HandleInput is called leaves the queue
\* as it is (the command is dropped) or adds the command at the back, behind
\* every command accepted earlier, whichever player sent it; no other step
\* changes the queue.
C22_ArrivalOrder ==
    [][IF InputStep
       THEN /\ g.InputChan # <<>>
            /\ g'.loops[1].input = Head(g.InputChan)
            /\ g'.InputChan = Tail(g.InputChan)
            /\ LET r == ProcessInput(g, Head(g.InputChan), now, idCounter)
               IN  g'.Tanks = r.game.Tanks /\ g'.Bullets = r.game.Bullets
       ELSE IF submitted' # submitted
       THEN \/ g'.InputChan = g.InputChan /\ Len(g.InputChan) = QueueCap
            \/ \E input \in QueueInputs : g'.InputChan = Append(g.InputChan, input)
       ELSE g'.InputChan = g.InputChan]_vars

\* player 2's fire command, then player 1's switch to the mortar, then
\* player 1's fire command were accepted by the queue of capacity two;
\* all three have been applied in that order before the first tick: tank 2
\* fired its cannon first and tank 1 fired the mortar it had switched to
C22_Witness ==
    /\ submitted = 3
    /\ g.loops[1].handled = 3
    /\ g.loops[1].input = FireCmd(1)
    /\ g.InputChan = <<>>
    /\ Len(g.Bullets) = 2
    /\ g.Bullets[1].OwnerID = 2 /\ g.Bullets[1].Type = BulletNormal
    /\ g.Bullets[2].OwnerID = 1 /\ g.Bullets[2].Type = BulletMortar

----------------------------------------------------------------------------
(* One hub with its match under way: Run ticks and hands a snapshot to    *)
(* the hub at every tick, the hub fans the snapshots out, and the         *)
(* outbound pumps write them.  WritePump is followed receive by receive.  *)

MaxStreamTime == 5   \* the clock of the stream stops here

\* the snapshot Game.broadcast hands to BroadcastFn, known by the time of
\* the tick it closes
StateMsg(t) == [Type |-> "game_state", Count |-> t]

\* hub 1 after connections 1 and 2 registered, their pumps started and
\* wrote the frames of the registration, and Run started
Streaming ==
    LET one == HandleRegister(NewLobby(1), NewClient(1), 1)
        two == HandleRegister(one.lobby, NewClient(1), 2)
        greeted == << ConnectedMsg(1), LobbyInfoMsg(1), LobbyInfoMsg(2) >>
    IN  [lobby |-> [two.lobby EXCEPT !.Broadcast = <<>>,
                                     !.Game.running = TRUE,
                                     !.Game.loops[1].pc = "select"],
         clients |-> [k \in {1, 2} |->
                        [NewClient(1) EXCEPT !.read = "reading", !.write = "running",
                                             !.wrote = IF k = 1 THEN greeted
                                                       ELSE << ConnectedMsg(2),
                                                               LobbyInfoMsg(2) >>]]]

InitStream ==
    /\ InitGame
    /\ lm = [lobbies |-> {1}, mu |-> Unlocked, crashed |-> FALSE]
    /\ lobbies = [c \in {1} |-> Streaming.lobby]
    /\ clients = Streaming.clients
    /\ tasks = [sweep |-> [pc |-> "idle", todo |-> {}, cur |-> 0],
                create |-> [pc |-> "idle", err |-> ""],
                list |-> [pc |-> "idle", todo |-> {}, cur |-> 0],
                connect |-> [pc |-> "idle", code |-> 0, client |-> 0],
                calls |-> 3]

\* the clock advances, up to max; the ticker of every running match has a
\* tick ready
ElapseWithin(max) ==
    /\ now < max
    /\ now' = now + 1
    /\ lobbies' = [c \in DOMAIN lobbies |->
                     [lobbies[c] EXCEPT !.Game.loops =
                        [i \in DOMAIN lobbies[c].Game.loops |->
                           IF lobbies[c].Game.loops[i].pc \in {"select", "broadcast"}
                           THEN [lobbies[c].Game.loops[i] EXCEPT !.tick = TRUE]
                           ELSE lobbies[c].Game.loops[i]]]]
    /\ UNCHANGED <<g, idCounter, usedIds, submitted, lastJoin, spawnOf, lm, clients, tasks>>

StreamElapse == ElapseWithin(MaxStreamTime)

\* Run of the match of hub c, case <-ticker.C, up to the return of g.update(dt)
GameTick(c) ==
    /\ Alive
    /\ c \in DOMAIN lobbies
    /\ lobbies[c].Game.loops # <<>>
    /\ lobbies[c].Game.loops[1].pc = "select"
    /\ lobbies[c].Game.loops[1].tick
    /\ \E r \in Update(lobbies[c].Game, now - lobbies[c].Game.loops[1].lastUpdate,
                       now, idCounter) :
         /\ lobbies' = [lobbies EXCEPT ![c].Game =
                          [r.game EXCEPT !.loops[1].pc = "broadcast",
                                         !.loops[1].lastUpdate = now,
                                         !.loops[1].tick = FALSE]]
         /\ idCounter' = r.idCounter
    /\ UNCHANGED <<g, now, usedIds, submitted, lastJoin, spawnOf, lm, clients, tasks>>

\* g.broadcast() of the match of hub c: BroadcastFn is the hub's
\* BroadcastMessage; then back to the loop condition
GameBroadcast(c) ==
    /\ Alive
    /\ c \in DOMAIN lobbies
    /\ lobbies[c].Game.loops # <<>>
    /\ lobbies[c].Game.loops[1].pc = "broadcast"
    /\ lobbies' = [lobbies EXCEPT ![c] =
                     [BroadcastMessage(lobbies[c], StateMsg(lobbies[c].Game.loops[1].lastUpdate))
                        EXCEPT !.Game.loops[1].pc = LoopNext(lobbies[c].Game)]]
    /\ UNCHANGED <<gameVars, lm, clients, tasks>>

\* WritePump, case message, ok := <-c.Send with a message: NextWriter,
\* w.Write(message), n := len(c.Send)
WriteRecv(k) ==
    /\ Alive
    /\ k \in DOMAIN clients
    /\ clients[k].write = "running"
    /\ clients[k].Send # <<>>
    /\ clients' = [clients EXCEPT ![k].write = "coalesce",
                                  ![k].frame = << Head(clients[k].Send) >>,
                                  ![k].Send = Tail(clients[k].Send),
                                  ![k].n = Len(clients[k].Send) - 1]
    /\ UNCHANGED <<gameVars, lm, lobbies, tasks>>

\* one round of the coalescing loop: w.Write(<-c.Send)
WriteCoalesce(k) ==
    /\ Alive
    /\ k \in DOMAIN clients
    /\ clients[k].write = "coalesce"
    /\ clients[k].n > 0
    /\ clients[k].Send # <<>>
    /\ clients' = [clients EXCEPT ![k].frame = Append(clients[k].frame,
                                                      Head(clients[k].Send)),
                                  ![k].Send = Tail(clients[k].Send),
                                  ![k].n = clients[k].n - 1]
    /\ UNCHANGED <<gameVars, lm, lobbies, tasks>>

\* the loop is over: w.Close() sends the frame
WriteFlush(k) ==
    /\ Alive
    /\ k \in DOMAIN clients
    /\ clients[k].write = "coalesce"
    /\ clients[k].n = 0
    /\ clients' = [clients EXCEPT ![k].write = "running",
                                  ![k].wrote = clients[k].wrote \o clients[k].frame,
                                  ![k].frame = <<>>]
    /\ UNCHANGED <<gameVars, lm, lobbies, tasks>>

NextStream ==
    \/ StreamElapse
    \/ \E c \in Codes : GameTick(c)
    \/ \E c \in Codes : GameBroadcast(c)
    \/ \E c \in Codes : HubRecvBroadcast(c)
    \/ \E c \in Codes : HubBroadcast(c)
    \/ \E c \in Codes : HubCheck(c)
    \/ \E k \in PlayerIds : WriteRecv(k)
    \/ \E k \in PlayerIds : WriteCoalesce(k)
    \/ \E k \in PlayerIds : WriteFlush(k)

SpecStream == InitStream /\ [][NextStream]_vars

\* the snapshots among the messages of a sequence, as their times
RECURSIVE Times(_)
Times(msgs) ==
    IF msgs = <<>> THEN <<>>
    ELSE (IF Head(msgs).Type = "game_state" THEN << Head(msgs).Count >> ELSE <<>>)
         \o Times(Tail(msgs))

Increasing(seq) == \A i, j \in DOMAIN seq : i < j => seq[i] < seq[j]

----------------------------------------------------------------------------
(* The match driven through its API, Stop included *)

NextStop ==
    \/ Next
    \/ StopGame
    \/ \E i \in DOMAIN g.loops : RunStop(i)

SpecStop == Init /\ [][NextStop]_vars

\* C24: a call of Stop on a match whose Run has been spawned (go g.Run()
\* issued by AddPlayer) closes stopChan, the signal Run's select observes to
\* set running to false and return.
C24_StopEndsLoop ==
    [][(~g.stopCalled /\ g'.stopCalled /\ g.loops # <<>>) => g'.stopClosed]_vars

----------------------------------------------------------------------------
(* The same hub while its connections go away and the idle sweep runs *)

MaxLeaveTime == 2    \* the clock stops here while connections leave

\* Run of the match of hub c, case <-g.stopChan
GameStop(c) ==
    /\ Alive
    /\ c \in DOMAIN lobbies
    /\ lobbies[c].Game.loops # <<>>
    /\ lobbies[c].Game.loops[1].pc = "select"
    /\ lobbies[c].Game.stopClosed
    /\ lobbies' = [lobbies EXCEPT ![c].Game.running = FALSE,
                                  ![c].Game.loops[1].pc = "exited"]
    /\ UNCHANGED <<gameVars, lm, clients, tasks>>

NextLeave ==
    \/ ElapseWithin(MaxLeaveTime)
    \/ \E c \in Codes : GameTick(c)
    \/ \E c \in Codes : GameBroadcast(c)
    \/ \E c \in Codes : GameStop(c)
    \/ \E c \in Codes : Expire(c)
    \/ SweepCall
    \/ SweepLock
    \/ SweepNext
    \/ SweepActivity
    \/ \E t \in ClosingThreads : LockedClose(t)
    \/ \E c \in Codes, k \in PlayerIds : HubRecvUnregister(c, k)
    \/ \E c \in Codes : HubUnregister(c)
    \/ \E c \in Codes : HubRemoveLock(c)
    \/ \E c \in Codes : HubRecvBroadcast(c)
    \/ \E c \in Codes : HubBroadcast(c)
    \/ \E c \in Codes : HubCheck(c)
    \/ \E k \in PlayerIds : ReadFails(k)
    \/ \E k \in PlayerIds : WriteMessages(k)
    \/ \E k \in PlayerIds : WriteStops(k)

SpecLeave == InitStream /\ [][NextLeave]_vars

\* C25: for every hub whose closed flag is set, the done channel of every
\* connection in its registry is closed, and Stop has been called on its
\* match if the match ever started its loop, so that the loop, if it still
\* runs, has its stop signal raised.
C25_ClosedHubStopsAll ==
    \A c \in DOMAIN lobbies :
       lobbies[c].closed =>
          /\ \A k \in lobbies[c].Clients : clients[k].done
          /\ lobbies[c].Game.loops # <<>> => lobbies[c].Game.stopCalled
          /\ lobbies[c].Game.running => lobbies[c].Game.stopClosed

\* C26: an inbound pump that has left its read loop and waits to hand its
\* connection to the hub's Unregister channel always finds a hub that can
\* still receive it: the hub's Run has not returned.  (Run is the only
\* receiver; the pump closes the transport, and the hub removes the tank,
\* only after the hand-over.)
C26_ReadPumpReleases ==
    \A k \in DOMAIN clients :
       clients[k].read = "unregister" => lobbies[clients[k].Lobby].pc # "exited"

----------------------------------------------------------------------------
(* Properties of the collision check *)

\* C27: when a collision check destroys a tank of a match being played, the
\* match is over after the check and its winner is one of its tanks, with
\* health above 0, whatever bullets the check resolved.
C27_WinnerSurvives ==
    [][(/\ g.State = StatePlaying
        /\ \E id \in DOMAIN g.Tanks : g.Tanks[id].Health > 0 /\ g'.Tanks[id].Health = 0)
       => /\ g'.State = StateGameOver
          /\ g'.WinnerID \in DOMAIN g'.Tanks
          /\ g'.Tanks[g'.WinnerID].Health > 0]_vars

\* the bullets of the game a collision check finds hitting a tank: they are
\* collision-active and overlap a tank they can harm
Striking(game) ==
    { i \in DOMAIN game.Bullets :
        /\ BulletIsActive(game.Bullets[i])
        /\ \E id \in DOMAIN game.Tanks :
              /\ CircleIntersects(BulletGetHitbox(game.Bullets[i]),
                                  TankGetHitbox(game.Tanks[id]))
              /\ ~(game.Bullets[i].Type = BulletNormal /\ game.Bullets[i].OwnerID = id) }

\* C28: over a collision check, no more tanks lose health than bullets hit
\* (a bullet damages one tank, also when it overlaps two), no tank's health
\* rises, every bullet that hit a tank is gone from the bullets afterwards,
\* and every other bullet is still there, in the order they had.
C28_OneHitRemovesBullet ==
    [][LET struck == Striking(g)
           harmed == { id \in DOMAIN g.Tanks : g'.Tanks[id].Health < g.Tanks[id].Health }
       IN  /\ Cardinality(harmed) <= Cardinality(struck)
           /\ \A id \in DOMAIN g.Tanks : g'.Tanks[id].Health <= g.Tanks[id].Health
           /\ \A i \in struck : \A j \in DOMAIN g'.Bullets :
                 g'.Bullets[j].ID # g.Bullets[i].ID
           /\ Len(g'.Bullets) = Len(g.Bullets) - Cardinality(struck)
           /\ \A i \in DOMAIN g.Bullets \ struck :
                 g'.Bullets[i - Cardinality({ k \in struck : k < i })] = g.Bullets[i]]_vars

\* after a check: tank 2 stands 50 px from tank 1, one of the two was
\* destroyed and the other is unharmed, the bullet that hit is gone and an
\* exploded mortar shell that reached nobody is still there
C28_Witness ==
    /\ g.loops[1].pc = "broadcast"
    /\ g.Tanks[2].Position.X - g.Tanks[1].Position.X = 50
    /\ g.Tanks[1].Health = 0
    /\ g.Tanks[2].Health = g.Tanks[2].MaxHealth
    /\ Len(g.Bullets) = 1
    /\ g.Bullets[1].Type = BulletMortar
    /\ BulletIsActive(g.Bullets[1])
    /\ Striking(g) = {}

----------------------------------------------------------------------------
(* Properties of the snapshots handed to the hub *)

\* C29: a tick of a hub's match leads to a broadcast request only while the
\* match is Playing: when Run takes the ticker case with the match in another
\* state, it does not go on from update to g.broadcast(), which hands a
\* snapshot to the hub's BroadcastMessage.
C29_BroadcastOnlyWhilePlaying ==
    [][\A c \in DOMAIN lobbies :
          (/\ lobbies[c].Game.loops # <<>>
           /\ lobbies[c].Game.loops[1].pc = "select"
           /\ lobbies'[c].Game.loops[1].pc = "broadcast")
             => lobbies[c].Game.State = StatePlaying]_vars

\* a step in which Run of the match of hub c completes g.broadcast()
BroadcastStep(c) ==
    /\ lobbies[c].Game.loops[1].pc = "broadcast"
    /\ lobbies'[c].Game.loops[1].pc # "broadcast"

\* C30: Run is never made to wait by the hub or the connections.  Whenever
\* Run has g.broadcast() to do, it can do it at once, whatever the hub's
\* Broadcast queue and the connections' Send queues hold, and the hub can
\* always finish a handleBroadcast; the queues never exceed their capacity;
\* g.broadcast() with the Broadcast queue full changes nothing of the hub
\* and of the connections (the snapshot is dropped), and otherwise only
\* appends the snapshot to the Broadcast queue; either way Run, having
\* completed the tick, is back at its select.
C30_TickLoopNeverBlocked ==
    /\ [](\A c \in DOMAIN lobbies :
             /\ lobbies[c].Game.loops[1].pc = "broadcast" => ENABLED GameBroadcast(c)
             /\ lobbies[c].pc = "bcast_lock" => ENABLED HubBroadcast(c)
             /\ Len(lobbies[c].Broadcast) <= BroadcastCap)
    /\ [](\A k \in DOMAIN clients : Len(clients[k].Send) <= SendCap)
    /\ [][\A c \in DOMAIN lobbies :
             BroadcastStep(c) =>
                /\ lobbies'[c].Game.loops[1].pc = "select"
                /\ clients' = clients
                /\ LET back == [lobbies[c] EXCEPT !.Game.loops[1].pc = "select"]
                   IN  IF Len(lobbies[c].Broadcast) >= BroadcastCap
                       THEN lobbies'[c] = back
                       ELSE lobbies'[c] =
                              [back EXCEPT !.Broadcast =
                                 Append(lobbies[c].Broadcast,
                                        StateMsg(lobbies[c].Game.loops[1].lastUpdate))]]_vars

\* Run has completed the broadcast of its latest tick although the hub's
\* Broadcast queue was full and a connection's Send queue is full: the
\* snapshot of that tick was dropped
C30_Witness ==
    /\ lobbies[1].Game.loops[1].pc = "select"
    /\ lobbies[1].Game.loops[1].lastUpdate > 0
    /\ Len(lobbies[1].Broadcast) = BroadcastCap
    /\ \E k \in lobbies[1].Clients : Len(clients[k].Send) = SendCap
    /\ \A i \in DOMAIN lobbies[1].Broadcast :
          lobbies[1].Broadcast[i].Count < lobbies[1].Game.loops[1].lastUpdate

----------------------------------------------------------------------------
(* The match's lock, g.mu.  The hub of InitStream with update and         *)
(* handleUnregister followed lock by lock: a loop at "update" holds       *)
(* g.mu.Lock(), a hub at "info" holds l.mu and is in broadcastLobbyInfo.  *)

\* whether Run of the match of hub c holds g.mu for writing
InUpdate(c) ==
    /\ lobbies[c].Game.loops # <<>>
    /\ lobbies[c].Game.loops[1].pc = "update"

\* Run, case <-ticker.C: g.update(dt) up to its g.mu.Lock()
GameLock(c) ==
    /\ Alive
    /\ c \in DOMAIN lobbies
    /\ lobbies[c].Game.loops # <<>>
    /\ lobbies[c].Game.loops[1].pc = "select"
    /\ lobbies[c].Game.loops[1].tick
    /\ lobbies' = [lobbies EXCEPT ![c].Game.loops[1].pc = "update"]
    /\ UNCHANGED <<gameVars, lm, clients, tasks>>

\* g.update(dt) from its lock to the deferred g.mu.Unlock()
GameUpdate(c) ==
    /\ Alive
    /\ c \in DOMAIN lobbies
    /\ InUpdate(c)
    /\ \E r \in Update(lobbies[c].Game, now - lobbies[c].Game.loops[1].lastUpdate,
                       now, idCounter) :
         /\ lobbies' = [lobbies EXCEPT ![c].Game =
                          [r.game EXCEPT !.loops[1].pc = "broadcast",
                                         !.loops[1].lastUpdate = now,
                                         !.loops[1].tick = FALSE]]
         /\ idCounter' = r.idCounter
    /\ UNCHANGED <<g, now, usedIds, submitted, lastJoin, spawnOf, lm, clients, tasks>>

\* handleUnregister from l.mu.Lock() to the return of Game.RemovePlayer,
\* which waits for g.mu; with connections left the hub goes on, l.mu held,
\* to broadcastLobbyInfo
HubLeave(c) ==
    /\ Alive
    /\ c \in DOMAIN lobbies
    /\ lobbies[c].pc = "unreg_lock"
    /\ CanLock(lobbies[c].mu)
    /\ ~InUpdate(c)
    /\ LET id == lobbies[c].cur
           r == HandleUnregister(lobbies[c], clients[id], id)
       IN  /\ clients' = [clients EXCEPT ![id] = r.client]
           /\ lm' = Crash(r.panic)
           /\ lobbies' = [lobbies EXCEPT ![c] =
                 IF id \notin lobbies[c].Clients
                 THEN [r.lobby EXCEPT !.pc = "check"]
                 ELSE IF r.lobby.Clients = {}
                 THEN [r.lobby EXCEPT !.closed = TRUE, !.mu.w = HubThread(c),
                                      !.pc = "remove_lock"]
                 ELSE [r.lobby EXCEPT !.mu.w = HubThread(c), !.pc = "info"]]
    /\ UNCHANGED <<gameVars, tasks>>

\* broadcastLobbyInfo called from handleUnregister: it builds the payload,
\* State: string(l.Game.State) included, taking no lock of the match, and
\* handleUnregister returns
HubLobbyInfo(c) ==
    /\ Alive
    /\ c \in DOMAIN lobbies
    /\ lobbies[c].pc = "info"
    /\ lobbies' = [lobbies EXCEPT ![c] =
                     [BroadcastLobbyInfo(lobbies[c]) EXCEPT !.mu = Unlocked,
                                                            !.pc = "check"]]
    /\ UNCHANGED <<gameVars, lm, clients, tasks>>

NextRace ==
    \/ ElapseWithin(MaxLeaveTime)
    \/ \E c \in Codes : GameLock(c)
    \/ \E c \in Codes : GameUpdate(c)
    \/ \E c \in Codes : GameBroadcast(c)
    \/ \E c \in Codes, k \in PlayerIds : HubRecvUnregister(c, k)
    \/ \E c \in Codes : HubLeave(c)
    \/ \E c \in Codes : HubLobbyInfo(c)
    \/ \E c \in Codes : HubRecvBroadcast(c)
    \/ \E c \in Codes : HubBroadcast(c)
    \/ \E c \in Codes : HubCheck(c)
    \/ \E k \in PlayerIds : ReadFails(k)
    \/ \E k \in PlayerIds : WriteMessages(k)

SpecRace == InitStream /\ [][NextRace]_vars

\* C31: the state of a match is read and written only under the match's
\* lock: the hub is never reading the match's state for the lobby info
\* (the hub at "info") while Run holds the match's lock for writing in
\* update, so no task reads what another is changing.
C31_MatchStateUnderLock ==
    \A c \in DOMAIN lobbies : lobbies[c].pc = "info" => ~InUpdate(c)

----------------------------------------------------------------------------
(* The package-level id counter.  idCounter is shared by every match of   *)
(* the process: while the two players of this match fire, the other       *)
(* matches fire as well and advance it.                                   *)

MaxIdCounter == 130  \* the other matches stop firing when idCounter is here
IdBatch == 3         \* ids the other matches generate between two steps here
MaxFires == 2        \* fire messages the players of this match send

InitIds ==
    /\ g = Started(0).game
    /\ now = 0
    /\ idCounter = 0
    /\ usedIds = {1, 2}
    /\ submitted = 0
    /\ lastJoin = [id |-> 2, ok |-> TRUE]
    /\ spawnOf = [id \in {1, 2} |-> SpawnIndex(Joined.Tanks[id].Position)]
    /\ InitNet

\* a player of this match sends a fire message: handleFire, HandleInput
SubmitFire(p) ==
    /\ submitted < MaxFires
    /\ submitted' = submitted + 1
    /\ g' = HandleInputWithin(g, FireCmd(p), QueueCap)
    /\ UNCHANGED <<now, idCounter, usedIds, lastJoin, spawnOf, netVars>>

\* weapons of other matches fire: generateID's idCounter++, IdBatch times
ElsewhereFires ==
    /\ idCounter < MaxIdCounter
    /\ idCounter' = idCounter + IdBatch
    /\ UNCHANGED <<g, now, usedIds, submitted, lastJoin, spawnOf, netVars>>

NextIds ==
    \/ \E p \in {1, 2} : SubmitFire(p)
    \/ \E i \in DOMAIN g.loops : RunInput(i)
    \/ ElsewhereFires

SpecIds == InitIds /\ [][NextIds]_vars

\* C32: projectile ids are unique: no two projectiles alive in the match at
\* the same time, hence in one snapshot, carry the same id, however many ids
\* the process has generated for other matches in between.
C32_BulletIdsUnique ==
    \A i, j \in DOMAIN g.Bullets : i # j => g.Bullets[i].ID # g.Bullets[j].ID

----------------------------------------------------------------------------
(* Switch-weapon messages.  SwitchWeaponPayload.Weapon is a WeaponType, a  *)
(* string type: json.Unmarshal accepts whatever string the client wrote.   *)

\* the weapon names of the switch-weapon messages the clients send
WireWeapons == { WeaponCannon, WeaponMortar, "laser" }

\* a player sends a switch-weapon message: handleSwitchWeapon, HandleInput
SubmitSwitch(p, w) ==
    /\ submitted < MaxQueued
    /\ submitted' = submitted + 1
    /\ g' = HandleInputWithin(g, SwitchCmd(p, w), QueueCap)
    /\ UNCHANGED <<now, idCounter, usedIds, lastJoin, spawnOf, netVars>>

NextSwitch ==
    \/ \E p \in {1, 2}, w \in WireWeapons : SubmitSwitch(p, w)
    \/ \E p \in {1, 2} : SubmitFire(p)
    \/ \E i \in DOMAIN g.loops : RunInput(i)

SpecSwitch == InitQueue /\ [][NextSwitch]_vars

\* C33: whatever switch-weapon messages the players send, the active weapon
\* of every tank is the cannon or the mortar.
C33_ActiveWeaponKnown ==
    \A id \in DOMAIN g.Tanks : g.Tanks[id].ActiveWeapon \in {WeaponCannon, WeaponMortar}

----------------------------------------------------------------------------
(* One hub from its creation on: connections arrive at it and go away,    *)
(* and the idle sweep runs.  What the hub sends is left in the queues of  *)
(* the connections: the outbound pumps take no step here.                 *)

InitHub ==
    /\ InitGame
    /\ lm = [lobbies |-> {1}, mu |-> Unlocked, crashed |-> FALSE]
    /\ lobbies = [c \in {1} |-> NewLobby(1)]
    /\ clients = << >>
    /\ tasks = [sweep |-> [pc |-> "idle", todo |-> {}, cur |-> 0],
                create |-> [pc |-> "idle", err |-> ""],
                list |-> [pc |-> "idle", todo |-> {}, cur |-> 0],
                connect |-> [pc |-> "idle", code |-> 0, client |-> 0],
                calls |-> 1]

NextHub ==
    \/ ConnectCall(1)
    \/ ConnectLookup
    \/ Expire(1)
    \/ SweepCall
    \/ SweepLock
    \/ SweepNext
    \/ SweepActivity
    \/ \E t \in ClosingThreads : LockedClose(t)
    \/ HubRecvRegister(1)
    \/ HubRegister(1)
    \/ \E k \in PlayerIds : HubRecvUnregister(1, k)
    \/ HubUnregister(1)
    \/ HubRemoveLock(1)
    \/ HubRecvBroadcast(1)
    \/ HubBroadcast(1)
    \/ HubCheck(1)
    \/ \E k \in PlayerIds : ReadFails(k)

SpecHub == InitHub /\ [][NextHub]_vars

----------------------------------------------------------------------------
(* Properties of the hub's registry *)

\* C34: whenever a hub is between two messages, the tanks of its match are
\* those of its registered connections: the ids of Game.Tanks are the ids
\* of Clients, so a registered connection has its tank and a rejected or
\* unregistered connection has none.
C34_TanksAreClients ==
    \A c \in DOMAIN lobbies :
        lobbies[c].pc \in {"select", "check", "exited"}
            => DOMAIN lobbies[c].Game.Tanks = lobbies[c].Clients

\* a hub with two registered connections has rejected a third, and then one
\* of the two left: one connection and its tank remain
C34_Witness ==
    \E c \in DOMAIN lobbies, i, j, m \in DOMAIN clients :
        /\ lobbies[c].pc = "select"
        /\ lobbies[c].Clients = {j}
        /\ DOMAIN lobbies[c].Game.Tanks = {j}
        /\ clients[i].Lobby = c /\ clients[i].sendClosed /\ i # j
        /\ clients[m].Lobby = c /\ clients[m].done /\ ~clients[m].sendClosed
        /\ m \notin {i, j}

----------------------------------------------------------------------------
(* Properties of the winner *)

\* C35: the winner of a match is written once: it is empty while the match
\* is Waiting or Playing, and every assignment to WinnerID the match has
\* seen carries the same player id, also when several bullets hit tanks in
\* one tick.
C35_WinnerWrittenOnce ==
    /\ g.State \in {StateWaiting, StatePlaying} => g.WinnerID = NoWinner
    /\ \A i, j \in DOMAIN g.wins : g.wins[i] = g.wins[j]

----------------------------------------------------------------------------
(* Properties of commands applied outside play *)

\* C36: a command Run receives while the match is not Playing leaves the
\* bullets as they are: no projectile is added once the match is over.
C36_NoBulletsOutsidePlay ==
    [][(g.loops # <<>> /\ InputStep /\ g.State # StatePlaying)
          => g'.Bullets = g.Bullets]_vars

----------------------------------------------------------------------------
(* Properties of a closed hub *)

\* C37: a hub that is marked closed accepts nobody: from then on no step
\* adds a connection to its registry or a tank to its match, so a register
\* request that races with the close is not accepted.
C37_ClosedHubAcceptsNobody ==
    [][\A c \in DOMAIN lobbies :
          lobbies[c].closed
             => /\ lobbies'[c].Clients \subseteq lobbies[c].Clients
                /\ DOMAIN lobbies'[c].Game.Tanks \subseteq DOMAIN lobbies[c].Game.Tanks]_vars

----------------------------------------------------------------------------
(* The hub of InitStream while its players send commands and the idle     *)
(* sweep runs.  The outbound pumps take no step here: what the hub fans   *)
(* out stays in the queues of the connections.                            *)

MaxSent == 2    \* messages the connections of the hub read in one behaviour

\* ReadPump of connection k reads a message: handleMessage, and handleInput
\* or handleFire calls HandleInput of the hub's match
ClientCommand(k, input) ==
    /\ Alive
    /\ k \in DOMAIN clients
    /\ clients[k].read = "reading"
    /\ input.PlayerID = k
    /\ submitted < MaxSent
    /\ submitted' = submitted + 1
    /\ lobbies' = [lobbies EXCEPT ![clients[k].Lobby].Game =
                     HandleInput(lobbies[clients[k].Lobby].Game, input)]
    /\ UNCHANGED <<g, now, idCounter, usedIds, lastJoin, spawnOf, lm, clients, tasks>>

\* Run of the match of hub c, case input := <-g.InputChan
GameInput(c) ==
    /\ Alive
    /\ c \in DOMAIN lobbies
    /\ lobbies[c].Game.loops # <<>>
    /\ lobbies[c].Game.loops[1].pc = "select"
    /\ lobbies[c].Game.InputChan # <<>>
    /\ LET game == lobbies[c].Game
           r == ProcessInput([game EXCEPT !.InputChan = Tail(game.InputChan)],
                             Head(game.InputChan), now, idCounter)
       IN  /\ lobbies' = [lobbies EXCEPT ![c].Game =
                            [r.game EXCEPT !.loops[1].pc = LoopNext(r.game),
                                           !.loops[1].input = Head(game.InputChan),
                                           !.loops[1].handled = game.loops[1].handled + 1]]
           /\ idCounter' = r.idCounter
    /\ UNCHANGED <<g, now, usedIds, submitted, lastJoin, spawnOf, lm, clients, tasks>>

NextIdle ==
    \/ ElapseWithin(MaxLeaveTime)
    \/ \E c \in Codes : GameTick(c)
    \/ \E c \in Codes : GameBroadcast(c)
    \/ \E c \in Codes : GameInput(c)
    \/ \E c \in Codes : GameStop(c)
    \/ \E k \in PlayerIds, input \in PlayerInputs : ClientCommand(k, input)
    \/ \E c \in Codes : Expire(c)
    \/ SweepCall
    \/ SweepLock
    \/ SweepNext
    \/ SweepActivity
    \/ \E t \in ClosingThreads : LockedClose(t)
    \/ \E c \in Codes : HubRecvBroadcast(c)
    \/ \E c \in Codes : HubBroadcast(c)
    \/ \E c \in Codes : HubCheck(c)

SpecIdle == InitStream /\ [][NextIdle]_vars

\* C38: the idle sweep does not close a hub in use: no step marks closed a
\* hub that has two registered connections and a match in state Playing
\* whose players are sending commands (Run has applied a command and the
\* next one is waiting in InputChan).
C38_SweepSparesActiveHub ==
    [][\A c \in DOMAIN lobbies :
          (/\ Cardinality(lobbies[c].Clients) = 2
           /\ lobbies[c].Game.State = StatePlaying
           /\ lobbies[c].Game.loops[1].handled > 0
           /\ lobbies[c].Game.InputChan # <<>>)
             => (lobbies'[c].closed = lobbies[c].closed /\ c \in lm'.lobbies)]_vars

\* whether a message for hub c can still come: one is queued in Broadcast,
\* a loop of its match may hand it a snapshot, a read pump of one of its
\* connections has its unregister still to send, or a connect request that
\* holds the hub is about to send on Register
Awaited(c) ==
    \/ lobbies[c].Broadcast # <<>>
    \/ \E i \in DOMAIN lobbies[c].Game.loops : lobbies[c].Game.loops[i].pc # "exited"
    \/ \E k \in DOMAIN clients :
          clients[k].Lobby = c /\ clients[k].read \in {"none", "reading", "unregister"}
    \/ tasks.connect.pc = "register" /\ tasks.connect.code = c

\* C39: the loop of a hub that is closed and out of the registry ends: such
\* a hub is never left waiting at its select with no message that can still
\* come, whatever number of connections it had when it was closed.
C39_ClosedLoopEnds ==
    \A c \in DOMAIN lobbies :
        (lobbies[c].closed /\ c \notin lm.lobbies /\ lobbies[c].pc = "select")
            => Awaited(c)

----------------------------------------------------------------------------
(* Properties of the channels of a connection *)

\* C40: the channels of a connection are closed once and not used after:
\* no step closes a done or Send channel that is closed already or sends on
\* a closed Send (the process does not panic); a closed done stays closed,
\* a closed Send stays closed and gets no further message; and no
\* connection in a hub's registry, to which handleBroadcast sends and whose
\* done Close closes, has its Send closed.
C40_ChannelsClosedOnce ==
    [][/\ Alive'
       /\ \A k \in DOMAIN clients :
            /\ clients[k].done => clients'[k].done
            /\ clients[k].sendClosed
                 => /\ clients'[k].sendClosed
                    /\ clients'[k].Send \in {clients[k].Send, <<>>}
       /\ \A c \in DOMAIN lobbies' : \A k \in lobbies'[c].Clients :
            ~clients'[k].sendClosed]_vars

\* the sweep closed a hub with two registered connections, closing the done
\* channel of both; then one of them was unregistered, which closed its
\* Send, and the hub's loop ended with the other still in the registry
C40_Witness ==
    \E c \in DOMAIN lobbies, i, j \in DOMAIN clients :
        /\ lobbies[c].closed /\ c \notin lm.lobbies
        /\ lobbies[c].pc = "exited"
        /\ lobbies[c].Clients = {j}
        /\ clients[j].done /\ ~clients[j].sendClosed
        /\ i # j /\ clients[i].Lobby = c
        /\ clients[i].done /\ clients[i].sendClosed

====
